---------------------------- MODULE Spec2Model ----------------------------
(***************************************************************************)
(* Caching, background precomputation and scoring subsystem of the        *)
(* word-association instruments API (ins-001/api/app/services).           *)
(*                                                                         *)
(* Part A  EmbeddingCache      (services/cache/embedding_cache.py)        *)
(* Part B  NoiseFloorCache     (services/cache/noise_floor_cache.py)      *)
(* Part C  EagerPrecompute     (services/async_services/                  *)
(*                              eager_precompute.py)                      *)
(*                                                                         *)
(* Each part has its own specification over the shared variables; the     *)
(* variables of the other parts stay unchanged.                           *)
(***************************************************************************)
EXTENDS Integers, Sequences, FiniteSets, TLC

VARIABLES
    now,         \* time.time() / datetime.now(), in whole ticks
    ecCache,     \* EmbeddingCache._cache: OrderedDict as a sequence, oldest first
    ecHits,      \* EmbeddingCache._hits
    ecMisses,    \* EmbeddingCache._misses
    ecPending,   \* get_embedding / get_embeddings_batch calls awaiting the provider
    ecLast,      \* the last EmbeddingCache step: what it returned, sent and stored
    ecSince,     \* per key: has a get_embedding completed since the key last left
    ecStoredAt,  \* per key: the time of the last insertion under the key
    ecOps,       \* number of EmbeddingCache calls made so far
    nfCache,     \* NoiseFloorCache._cache: OrderedDict as a sequence, oldest first
    nfHits,      \* NoiseFloorCache._hits
    nfMisses,    \* NoiseFloorCache._misses
    nfLast,      \* the last NoiseFloorCache call: its key, what it returned and evicted
    nfRecency,   \* the cached keys in the order of their last access (hit or put)
    nfOps,       \* number of NoiseFloorCache calls made so far
    records,     \* every PrecomputeResult allocated so far, by allocation number
    routines,    \* the _run_precomputation task of each record: where it stands
    results,     \* EagerPrecompute._results: dict game_id -> record, insertion order
    tasks,       \* EagerPrecompute._tasks: game_id -> task (0: no entry)
    waiters,     \* get_precomputed_results calls suspended in wait_for
    preLast,     \* the last EagerPrecompute call: what it was and what it returned
    everStarted, \* the game ids start_bridging_precompute was ever called with
    timedOut,    \* the records a get_precomputed_results call timed out on
    subLast,     \* get_relevance_percentile of a submission: position, record, result
    lexUnion,    \* the find_lexical_union call: where it stands, what it sent
    ctxLast,     \* the last two get_contextual_embedding calls: word, context, text
    vpPool,      \* VocabularyPool: _words, _words_with_embeddings, _initialized, _last_refresh
    vpLoad,      \* the VocabularyPool.initialize call: where it stands, what it has fetched
    vpLast,      \* the last get_random / get_random_batch call and its answer
    stats,       \* StatsCache: _null_distributions, _initialized
    stLast,      \* the last StatsCache.get_relevance_percentile call and its answer
    scLast,      \* the last call of a scoring function and its answer
    locks,       \* every threading.Lock: the thread that holds it (0: free)
    threads      \* every thread: the operation it runs and the step it is at

ecVars == <<ecCache, ecHits, ecMisses, ecPending, ecLast, ecSince, ecStoredAt, ecOps>>

nfVars == <<nfCache, nfHits, nfMisses, nfLast, nfRecency, nfOps>>

preVars == <<records, routines, results, tasks, waiters, preLast, everStarted, timedOut>>

\* the variables of the parts after EagerPrecompute
\* the records of the last calls of the sampling, statistics and scoring functions
lockVars == <<locks, threads>>

callVars == <<vpLast, stats, stLast, scLast, lockVars>>

extVars == <<subLast, lexUnion, ctxLast, vpPool, vpLoad, callVars>>

vars == <<now, ecVars, nfVars, preVars, extVars>>

\* Python's None where a vector or a result list is expected
None == [none |-> TRUE]

(***************************************************************************)
(* Model bounds.                                                           *)
(***************************************************************************)
MaxTime == 2        \* the clock runs 0..MaxTime
MaxSize == 2        \* max_size given to the cache constructors
TtlSeconds == 1     \* ttl_seconds given to the cache constructors
MaxOps == 3         \* calls made to one cache in one run
MaxInflight == 2    \* provider calls in flight at once
MaxBatch == 2       \* longest texts list given to get_embeddings_batch
NfMaxSize == 3      \* max_size given to the NoiseFloorCache constructor
NfMaxOps == 5       \* calls made to the NoiseFloorCache in one run
MaxRecords == 3     \* start_bridging_precompute calls in one run
MaxDetailed == 1    \* start_bridging_precompute calls in a run that follows every subtask
MaxTimeout == 1     \* longest timeout_seconds given to get_precomputed_results
MaxWaiters == 1     \* get_precomputed_results calls suspended at once
\* EagerPrecompute.RESULT_TTL_MINUTES (30) and MAX_CACHED_RESULTS (1000), scaled
\* down to the model's clock and number of game ids
RESULT_TTL_MINUTES == 1
MAX_CACHED_RESULTS == 2
MaxScore == 3       \* relevance scores and null samples range over 0..MaxScore
MaxSamples == 2     \* longest list of null samples
MaxConcepts == 1    \* num_concepts given to find_lexical_union

\* the game ids given to start_bridging_precompute / get_precomputed_results
GameIds == { "g1", "g2", "g3" }

\* the threads that call into the caches and the precompute manager
Threads == { 1, 2 }

\* every threading.Lock of the services: the class-level _lock that guards each
\* singleton and the instance-level lock that guards each cache's state
LockNames ==
    { "EmbeddingCache._lock", "EmbeddingCache._cache_lock",
      "NoiseFloorCache._lock", "NoiseFloorCache._cache_lock",
      "VocabularyPool._lock", "VocabularyPool._pool_lock",
      "StatsCache._lock", "StatsCache._cache_lock",
      "EagerPrecompute._lock", "EagerPrecompute._results_lock" }

\* a thread that is in no operation
IdleThread == [op |-> "idle", steps |-> <<>>, pc |-> 0]

(***************************************************************************)
(* Texts are sequences of characters, so that lower() and strip() are     *)
(* computed and not assumed.                                               *)
(***************************************************************************)
Texts == { <<"a">>, <<"A", " ">>, <<"b">>, <<"c">> }

RECURSIVE SeqsUpTo(_, _)
SeqsUpTo(S, n) ==
    IF n = 0 THEN { <<>> }
    ELSE LET shorter == SeqsUpTo(S, n - 1)
         IN  shorter \cup { Append(s, x) : s \in { q \in shorter : Len(q) = n - 1 }, x \in S }

\* str.lower() on one character
CharLower(c) ==
    CASE c = "A" -> "a"
      [] c = "B" -> "b"
      [] c = "C" -> "c"
      [] OTHER   -> c

IsSpace(c) == c = " "

RECURSIVE LStrip(_)
LStrip(s) == IF s # <<>> /\ IsSpace(Head(s)) THEN LStrip(Tail(s)) ELSE s

RECURSIVE RStrip(_)
RStrip(s) ==
    IF s # <<>> /\ IsSpace(s[Len(s)]) THEN RStrip(SubSeq(s, 1, Len(s) - 1)) ELSE s

\* str.lower()
Lower(s) == [i \in 1..Len(s) |-> CharLower(s[i])]

\* str.strip()
Strip(s) == RStrip(LStrip(s))

\* EmbeddingCache._normalize_key: text.lower().strip()
EC_normalize_key(text) == Strip(Lower(text))

\* ', '.join(context)
RECURSIVE Join(_)
Join(context) ==
    IF context = <<>> THEN <<>>
    ELSE IF Len(context) = 1 THEN context[1]
    ELSE context[1] \o <<",", " ">> \o Join(Tail(context))

\* get_contextual_embedding: f"{word} (in context: {', '.join(context)})", or the
\* word itself when the context is empty
ContextualText(word, context) ==
    IF context # <<>>
    THEN word \o <<" ", "(", "i", "n", " ", "c", "o", "n", "t", "e", "x", "t", ":", " ">>
              \o Join(context) \o <<")">>
    ELSE word

\* the words and the context lists given to get_contextual_embedding
CtxWords == { <<"c">>, <<"b">> }

Contexts ==
    { <<>>,
      << <<"a">> >>,
      << <<"A">> >>,
      << <<"a">>, <<"b">> >>,
      << <<"b">>, <<"a">> >>,
      << <<"a", ",", " ", "b">> >> }

ContextTexts == { ContextualText(w, c) : w \in CtxWords, c \in Contexts }

\* the normalized keys of every text the cache is given
Keys == { EC_normalize_key(t) : t \in Texts \cup ContextTexts }

\* The provider's vector for a text: one vector per raw text (the provider is
\* deterministic, and sees the text as given, not its normalized key).
Embed(text) == [vec |-> text]

\* client.embeddings.create(input=[...]).data: one item per input, in input order
ProviderResponse(input) == [i \in 1..Len(input) |-> Embed(input[i])]

(***************************************************************************)
(* OrderedDict as a sequence of entries [key, value, ts], oldest first.    *)
(***************************************************************************)
RECURSIVE IndexOf(_, _)
IndexOf(cache, key) ==
    IF cache = <<>> THEN 0
    ELSE IF cache[Len(cache)].key = key THEN Len(cache)
    ELSE IndexOf(SubSeq(cache, 1, Len(cache) - 1), key)

HasKey(cache, key) == IndexOf(cache, key) # 0

RemoveAt(cache, i) == SubSeq(cache, 1, i - 1) \o SubSeq(cache, i + 1, Len(cache))

\* OrderedDict.move_to_end(key)
MoveToEnd(cache, key) ==
    LET i == IndexOf(cache, key) IN Append(RemoveAt(cache, i), cache[i])

\* OrderedDict.__setitem__: an existing key keeps its position
SetItem(cache, key, value, ts) ==
    LET i == IndexOf(cache, key)
        e == [key |-> key, value |-> value, ts |-> ts]
    IN  IF i = 0 THEN Append(cache, e) ELSE [cache EXCEPT ![i] = e]

KeysOf(cache) == { cache[i].key : i \in 1..Len(cache) }


(***************************************************************************)
(* Part A.  EmbeddingCache                                                 *)
(***************************************************************************)

\* Variant of EC_is_expired with the comparison off by one (>= for >).
EC_is_expired_AtTtl(ts, t) == t - ts >= TtlSeconds

\* EmbeddingCache._is_expired: time.time() - timestamp > self._ttl_seconds
EC_is_expired(ts, t) == t - ts > TtlSeconds

\* EmbeddingCache._get_from_cache on the state st = [cache, hits, misses]:
\* a live entry is moved to the end and counted as a hit; an expired one is
\* deleted; everything else counts as a miss and yields None.
EC_get_from_cache(st, key, t) ==
    LET i == IndexOf(st.cache, key)
    IN  IF i # 0 /\ ~EC_is_expired(st.cache[i].ts, t)
        THEN [cache |-> MoveToEnd(st.cache, key), hits |-> st.hits + 1,
              misses |-> st.misses, value |-> st.cache[i].value]
        ELSE [cache |-> IF i # 0 THEN RemoveAt(st.cache, i) ELSE st.cache,
              hits |-> st.hits, misses |-> st.misses + 1, value |-> None]

\* Variant of PopWhileFull that evicts only above max_size
RECURSIVE PopWhileFull_Above(_)
PopWhileFull_Above(cache) ==
    IF Len(cache) > MaxSize /\ cache # <<>> THEN PopWhileFull_Above(Tail(cache)) ELSE cache

\* while len(self._cache) >= self._max_size: self._cache.popitem(last=False)
RECURSIVE PopWhileFull(_)
PopWhileFull(cache) ==
    IF Len(cache) >= MaxSize /\ cache # <<>> THEN PopWhileFull(Tail(cache)) ELSE cache

\* EmbeddingCache._put_in_cache
EC_put_in_cache(cache, key, embedding, t) ==
    SetItem(PopWhileFull(cache), key, embedding, t)

\* The keys a put of `key` removes from `cache` for capacity (a popped key that
\* the same put stores again has not left the cache).
EvictedByPut(cache, after, key) ==
    SelectSeq([i \in 1..Len(cache) |-> cache[i].key],
              LAMBDA k : k # key /\ ~HasKey(after, k))

\* get_embeddings_batch, the loop over zip(keys, texts): every text is looked
\* up in turn; a miss leaves None in results and is recorded as
\* (index, key, original_text).
RECURSIVE EC_batch_lookup(_, _, _, _)
EC_batch_lookup(st, texts, i, t) ==
    IF i > Len(texts) THEN st
    ELSE LET key == EC_normalize_key(texts[i])
             got == EC_get_from_cache([cache |-> st.cache, hits |-> st.hits,
                                       misses |-> st.misses], key, t)
             nxt == [cache   |-> got.cache,
                     hits    |-> got.hits,
                     misses  |-> got.misses,
                     results |-> Append(st.results, got.value),
                     missed  |-> IF got.value # None THEN st.missed
                                 ELSE Append(st.missed,
                                        [idx |-> i, key |-> key, text |-> texts[i]])]
         IN  EC_batch_lookup(nxt, texts, i + 1, t)

\* Variant of EC_batch_store that writes the j-th answer to results[j] instead of
\* results[idx].
RECURSIVE EC_batch_store_ByPosition(_, _, _, _, _)
EC_batch_store_ByPosition(st, missed, data, j, t) ==
    IF j > Len(missed) \/ j > Len(data) THEN st
    ELSE LET m     == missed[j]
             after == EC_put_in_cache(st.cache, m.key, data[j], t)
             nxt   == [cache   |-> after,
                       results |-> [st.results EXCEPT ![j] = data[j]],
                       puts    |-> Append(st.puts, <<m.key, data[j]>>),
                       evicted |-> st.evicted \o EvictedByPut(st.cache, after, m.key)]
         IN  EC_batch_store_ByPosition(nxt, missed, data, j + 1, t)

\* get_embeddings_batch, the loop over zip(misses, response.data): each item is
\* put in the cache and written to results[idx].
RECURSIVE EC_batch_store(_, _, _, _, _)
EC_batch_store(st, missed, data, j, t) ==
    IF j > Len(missed) \/ j > Len(data) THEN st
    ELSE LET m     == missed[j]
             after == EC_put_in_cache(st.cache, m.key, data[j], t)
             nxt   == [cache   |-> after,
                       results |-> [st.results EXCEPT ![m.idx] = data[j]],
                       puts    |-> Append(st.puts, <<m.key, data[j]>>),
                       evicted |-> st.evicted \o EvictedByPut(st.cache, after, m.key)]
         IN  EC_batch_store(nxt, missed, data, j + 1, t)

\* Variant of MissTexts that sends the normalized keys (m[1]) to the provider.
MissTexts_Keys(missed) == [j \in 1..Len(missed) |-> missed[j].key]

\* miss_texts = [m[2] for m in misses]
MissTexts(missed) == [j \in 1..Len(missed) |-> missed[j].text]

EcEvent(op, step, texts, done, res, sent, puts, evicted) ==
    [op |-> op, step |-> step, texts |-> texts, done |-> done, results |-> res,
     sent |-> sent, puts |-> puts, evicted |-> evicted]

\* History: after a store of the keys in `puts` that evicted `evicted`.
SinceAfter(since, evicted, gotKeys) ==
    [k \in Keys |->
        IF k \in gotKeys THEN "got"
        ELSE IF \E i \in 1..Len(evicted) : evicted[i] = k THEN "none"
        ELSE since[k]]

StoredAfter(stored, puts, t) ==
    [k \in Keys |-> IF \E i \in 1..Len(puts) : puts[i][1] = k THEN t ELSE stored[k]]

\* get_embedding(text) up to its first suspension: the cache lookup, and on a
\* miss the provider request.
GetEmbeddingCall(text) ==
    /\ ecOps < MaxOps
    /\ ecOps' = ecOps + 1
    /\ LET key == EC_normalize_key(text)
           got == EC_get_from_cache([cache |-> ecCache, hits |-> ecHits,
                                     misses |-> ecMisses], key, now)
       IN  /\ ecCache' = got.cache
           /\ ecHits' = got.hits
           /\ ecMisses' = got.misses
           /\ IF got.value # None
              THEN /\ ecPending' = ecPending
                   /\ ecLast' = EcEvent("get_embedding", "call", <<text>>, TRUE,
                                        <<got.value>>, <<>>, <<>>, <<>>)
                   /\ ecSince' = [ecSince EXCEPT ![key] = "got"]
              ELSE /\ Len(ecPending) < MaxInflight
                   /\ ecPending' = Append(ecPending,
                          [kind |-> "get_embedding", texts |-> <<text>>,
                           results |-> <<None>>,
                           missed |-> <<[idx |-> 1, key |-> key, text |-> text]>>])
                   /\ ecLast' = EcEvent("get_embedding", "call", <<text>>, FALSE,
                                        <<None>>, << <<text>> >>, <<>>, <<>>)
                   /\ ecSince' = ecSince
    /\ UNCHANGED <<now, ecStoredAt>>

\* get_embedding(text) after the provider answered: response.data[0].embedding
\* is stored under the key and returned.
GetEmbeddingReturn(i) ==
    /\ i \in 1..Len(ecPending)
    /\ ecPending[i].kind = "get_embedding"
    /\ LET p         == ecPending[i]
           m         == p.missed[1]
           embedding == ProviderResponse(p.texts)[1]
           after     == EC_put_in_cache(ecCache, m.key, embedding, now)
           evicted   == EvictedByPut(ecCache, after, m.key)
       IN  /\ ecCache' = after
           /\ ecLast' = EcEvent("get_embedding", "return", p.texts, TRUE,
                                <<embedding>>, <<>>, << <<m.key, embedding>> >>, evicted)
           /\ ecSince' = SinceAfter(ecSince, evicted, {m.key})
           /\ ecStoredAt' = StoredAfter(ecStoredAt, << <<m.key, embedding>> >>, now)
    /\ ecPending' = RemoveAt(ecPending, i)
    /\ UNCHANGED <<now, ecHits, ecMisses, ecOps>>

\* get_embeddings_batch(texts) up to its first suspension.
GetEmbeddingsBatchCall(texts) ==
    /\ ecOps < MaxOps
    /\ ecOps' = ecOps + 1
    /\ IF texts = <<>>
       THEN /\ ecLast' = EcEvent("get_embeddings_batch", "call", texts, TRUE,
                                 <<>>, <<>>, <<>>, <<>>)
            /\ UNCHANGED <<ecCache, ecHits, ecMisses, ecPending>>
       ELSE LET st == EC_batch_lookup([cache |-> ecCache, hits |-> ecHits,
                                       misses |-> ecMisses, results |-> <<>>,
                                       missed |-> <<>>], texts, 1, now)
            IN  /\ ecCache' = st.cache
                /\ ecHits' = st.hits
                /\ ecMisses' = st.misses
                /\ IF st.missed = <<>>
                   THEN /\ ecPending' = ecPending
                        /\ ecLast' = EcEvent("get_embeddings_batch", "call", texts,
                                             TRUE, st.results, <<>>, <<>>, <<>>)
                   ELSE /\ Len(ecPending) < MaxInflight
                        /\ ecPending' = Append(ecPending,
                               [kind |-> "get_embeddings_batch", texts |-> texts,
                                results |-> st.results, missed |-> st.missed])
                        /\ ecLast' = EcEvent("get_embeddings_batch", "call", texts,
                                             FALSE, st.results,
                                             << MissTexts(st.missed) >>, <<>>, <<>>)
    /\ UNCHANGED <<now, ecSince, ecStoredAt>>

\* get_embeddings_batch(texts) after the provider answered.
GetEmbeddingsBatchReturn(i) ==
    /\ i \in 1..Len(ecPending)
    /\ ecPending[i].kind = "get_embeddings_batch"
    /\ LET p    == ecPending[i]
           data == ProviderResponse(MissTexts(p.missed))
           st   == EC_batch_store([cache |-> ecCache, results |-> p.results,
                                   puts |-> <<>>, evicted |-> <<>>],
                                  p.missed, data, 1, now)
       IN  /\ ecCache' = st.cache
           /\ ecLast' = EcEvent("get_embeddings_batch", "return", p.texts, TRUE,
                                st.results, <<>>, st.puts, st.evicted)
           /\ ecSince' = SinceAfter(ecSince, st.evicted, {})
           /\ ecStoredAt' = StoredAfter(ecStoredAt, st.puts, now)
    /\ ecPending' = RemoveAt(ecPending, i)
    /\ UNCHANGED <<now, ecHits, ecMisses, ecOps>>

\* The provider request raises: the exception leaves get_embedding /
\* get_embeddings_batch before anything is stored.
ProviderRaises(i) ==
    /\ i \in 1..Len(ecPending)
    /\ ecLast' = EcEvent(ecPending[i].kind, "raise", ecPending[i].texts, TRUE,
                         <<>>, <<>>, <<>>, <<>>)
    /\ ecPending' = RemoveAt(ecPending, i)
    /\ UNCHANGED <<now, ecCache, ecHits, ecMisses, ecSince, ecStoredAt, ecOps>>

\* EmbeddingCache.clear
EcClear ==
    /\ ecOps < MaxOps
    /\ ecOps' = ecOps + 1
    /\ ecCache' = <<>>
    /\ ecHits' = 0
    /\ ecMisses' = 0
    /\ ecLast' = EcEvent("clear", "return", <<>>, TRUE, <<>>, <<>>, <<>>, <<>>)
    /\ ecSince' = [k \in Keys |-> IF ecSince[k] = "got" THEN "cleared" ELSE ecSince[k]]
    /\ UNCHANGED <<now, ecPending, ecStoredAt>>

\* completed_at is None
NoTime == 0 - 1

\* the largest num_clues a percentile is asked for
MaxClues == 3

\* The state after construction: empty caches, no precompute task, time 0.
Init ==
    /\ now = 0
    /\ ecCache = <<>>
    /\ ecHits = 0
    /\ ecMisses = 0
    /\ ecPending = <<>>
    /\ ecLast = EcEvent("init", "return", <<>>, TRUE, <<>>, <<>>, <<>>, <<>>)
    /\ ecSince = [k \in Keys |-> "none"]
    /\ ecStoredAt = [k \in Keys |-> 0]
    /\ ecOps = 0
    /\ nfCache = <<>>
    /\ nfHits = 0
    /\ nfMisses = 0
    /\ nfLast = [op |-> "init", key |-> <<>>, value |-> None, evicted |-> <<>>]
    /\ nfRecency = <<>>
    /\ nfOps = 0
    /\ records = <<>>
    /\ routines = <<>>
    /\ results = <<>>
    /\ tasks = [g \in GameIds |-> 0]
    /\ waiters = <<>>
    /\ preLast = [op |-> "init", game_id |-> "", value |-> 0, waited |-> FALSE,
                  timed_out |-> FALSE, since |-> 0, timeout |-> 0, at |-> 0]
    /\ everStarted = {}
    /\ timedOut = {}
    /\ subLast = [pc |-> "idle", precomputed |-> None,
                  path |-> "none", relevance |-> 0, samples |-> <<>>,
                  percentile |-> [num |-> 0, den |-> 1]]
    /\ lexUnion = [pc |-> "idle", sent |-> <<>>, anchor |-> <<>>, target |-> <<>>,
                   num_concepts |-> 0, candidates |-> <<>>, scores |-> <<>>,
                   picked |-> <<>>, words |-> <<>>]
    /\ vpPool = [words |-> <<>>, pairs |-> <<>>, initialized |-> FALSE, last_refresh |-> NoTime]
    /\ vpLoad = [pc |-> "idle", calls |-> 0, outcome |-> "none", store |-> <<>>,
                 load_embeddings |-> FALSE, all_words |-> <<>>, all_embeddings |-> <<>>,
                 offset |-> 0, pages |-> 0]
    /\ vpLast = [op |-> "none"]
    /\ stats = [dists |-> [n \in 1..MaxClues |-> None], initialized |-> FALSE, loads |-> 0]
    /\ stLast = [op |-> "none"]
    /\ scLast = [fn |-> "none"]
    /\ locks = [l \in LockNames |-> 0]
    /\ threads = [t \in Threads |-> IdleThread]
    /\ ctxLast = [calls |-> 0, word |-> <<>>, context |-> <<>>, text |-> <<>>,
                  prev |-> [word |-> <<>>, context |-> <<>>, text |-> <<>>]]

\* The clock advances.
Tick ==
    /\ now < MaxTime
    /\ now' = now + 1

EcTick == Tick /\ UNCHANGED <<ecVars, nfVars, preVars, extVars>>

EcNext ==
    \/ \E text \in Texts : GetEmbeddingCall(text) /\ UNCHANGED <<nfVars, preVars, extVars>>
    \/ \E i \in 1..MaxInflight : GetEmbeddingReturn(i) /\ UNCHANGED <<nfVars, preVars, extVars>>
    \/ \E texts \in SeqsUpTo(Texts, MaxBatch) :
          GetEmbeddingsBatchCall(texts) /\ UNCHANGED <<nfVars, preVars, extVars>>
    \/ \E i \in 1..MaxInflight : GetEmbeddingsBatchReturn(i) /\ UNCHANGED <<nfVars, preVars, extVars>>
    \/ \E i \in 1..MaxInflight : ProviderRaises(i) /\ UNCHANGED <<nfVars, preVars, extVars>>
    \/ EcClear /\ UNCHANGED <<nfVars, preVars, extVars>>
    \/ EcTick



SpecCache == Init /\ [][EcNext]_vars

(***************************************************************************)
(* Claims about the EmbeddingCache.                                        *)
(***************************************************************************)

\* The keys a lookup at time t finds: present and stored no longer than the TTL ago.
LiveKeys(cache, t) ==
    { cache[i].key : i \in { j \in 1..Len(cache) : t - cache[j].ts <= TtlSeconds } }

\* The vectors the provider can return for texts of one normalized key.
VectorsOf(key) == { Embed(t) : t \in { u \in Texts : EC_normalize_key(u) = key } }

\* This step is get_embedding(text) doing its cache lookup.
IsGetEmbeddingCall(text) ==
    /\ ecOps' = ecOps + 1
    /\ ecLast'.op = "get_embedding"
    /\ ecLast'.step = "call"
    /\ ecLast'.texts = <<text>>

\* C1 as stated: a get_embedding(text) issued after an earlier get_embedding of the
\* same normalized key has completed is a cache hit and sends nothing to the
\* provider, as long as the TTL has not elapsed since the entry was stored and the
\* key was not evicted for capacity in between.
C1_HitAfterGet_AsStated ==
    [][ \A text \in Texts :
          ( /\ IsGetEmbeddingCall(text)
            /\ ecSince[EC_normalize_key(text)] \in {"got", "cleared"}
            /\ now - ecStoredAt[EC_normalize_key(text)] <= TtlSeconds )
          => ( /\ ecLast'.done
               /\ ecLast'.results # <<None>>
               /\ ecLast'.sent = <<>> ) ]_vars

\* C1 (amended): a get_embedding(text) issued after an earlier get_embedding of the
\* same normalized key has completed is a cache hit and sends nothing to the
\* provider, as long as the TTL has not elapsed since the entry was stored, the key
\* was not evicted for capacity and the cache was not cleared in between.
C1_HitAfterGet ==
    [][ \A text \in Texts :
          ( /\ IsGetEmbeddingCall(text)
            /\ ecSince[EC_normalize_key(text)] = "got"
            /\ now - ecStoredAt[EC_normalize_key(text)] <= TtlSeconds )
          => ( /\ ecLast'.done
               /\ ecLast'.results # <<None>>
               /\ ecLast'.sent = <<>> ) ]_vars

\* A second get_embedding of a key was served from the cache after the first one
\* had missed, asked the provider and stored the answer.
C1_Witness ==
    /\ ecLast.op = "get_embedding"
    /\ ecLast.step = "call"
    /\ ecLast.done
    /\ ecLast.sent = <<>>
    /\ ecHits = 1
    /\ ecMisses = 1
    /\ ecOps = 2
    /\ ecPending = <<>>

\* C3: get_embeddings_batch(texts) returns a list as long as texts whose i-th
\* element is a vector of texts[i] (of its normalized key), for every mix of
\* hits and misses.
C3_BatchOrder ==
    ( /\ ecLast.op = "get_embeddings_batch"
      /\ ecLast.step \in {"call", "return"}
      /\ ecLast.done )
    => ( /\ Len(ecLast.results) = Len(ecLast.texts)
         /\ \A i \in 1..Len(ecLast.texts) :
               ecLast.results[i] \in VectorsOf(EC_normalize_key(ecLast.texts[i])) )

\* A batch of two texts returned after a miss at the first position and a hit at
\* the second.
C3_Witness ==
    /\ ecLast.op = "get_embeddings_batch"
    /\ ecLast.step = "return"
    /\ Len(ecLast.texts) = 2
    /\ Len(ecLast.puts) = 1
    /\ ecLast.puts[1][1] = EC_normalize_key(ecLast.texts[1])
    /\ EC_normalize_key(ecLast.texts[1]) # EC_normalize_key(ecLast.texts[2])

\* The texts of a batch that miss a cache, in input order.
MissedTexts(texts, cache, t) ==
    SelectSeq(texts, LAMBDA u : EC_normalize_key(u) \notin LiveKeys(cache, t))

\* The texts a suspended batch call left unanswered (None in results), in input
\* order.
PendingInput(p) ==
    LET idx == SelectSeq([j \in 1..Len(p.texts) |-> j], LAMBDA j : p.results[j] = None)
    IN  [n \in 1..Len(idx) |-> p.texts[idx[n]]]

\* C4: get_embeddings_batch(texts) sends nothing to the provider when every text
\* is a hit or texts is empty, and otherwise exactly one request whose input is
\* the missed texts in input order; every vector of the answer is put in the
\* cache under its text's normalized key.
C4_OneProviderCall ==
    [][ /\ ( /\ ecOps' = ecOps + 1
             /\ ecLast'.op = "get_embeddings_batch"
             /\ ecLast'.step = "call" )
           => LET missed == MissedTexts(ecLast'.texts, ecCache, now)
              IN  /\ ecLast'.sent = IF missed = <<>> THEN <<>> ELSE << missed >>
                  /\ ecLast'.done <=> missed = <<>>
                  /\ ecLast'.puts = <<>>
        /\ \A i \in 1..Len(ecPending) :
             ( /\ ecPending' = RemoveAt(ecPending, i)
               /\ ecPending[i].kind = "get_embeddings_batch"
               /\ ecLast'.op = "get_embeddings_batch"
               /\ ecLast'.step = "return"
               /\ ecLast'.texts = ecPending[i].texts )
             => LET input == PendingInput(ecPending[i])
                IN  /\ ecLast'.sent = <<>>
                    /\ ecLast'.puts = [j \in 1..Len(input) |->
                                         <<EC_normalize_key(input[j]), Embed(input[j])>>]
                    /\ LET last == ecLast'.puts[Len(ecLast'.puts)]
                       IN  /\ HasKey(ecCache', last[1])
                           /\ ecCache'[IndexOf(ecCache', last[1])].value = last[2]
      ]_vars

\* A batch of two texts of different keys that both missed returned, and both
\* vectors were put in the cache.
C4_Witness ==
    /\ ecLast.op = "get_embeddings_batch"
    /\ ecLast.step = "return"
    /\ Len(ecLast.puts) = 2
    /\ ecLast.puts[1][1] # ecLast.puts[2][1]
    /\ KeysOf(ecCache) = { ecLast.puts[1][1], ecLast.puts[2][1] }

(***************************************************************************)
(* Part B.  NoiseFloorCache                                                *)
(***************************************************************************)

NfSeeds == { <<"a">>, <<"A", " ">>, <<"b">> }

\* sense_context: None or a list of context words
NfContexts == { None, [list |-> <<>>], [list |-> <<"x", "y">>], [list |-> <<"y", "x">>] }

NfKs == { 20 }

\* the result lists a caller stores
NfResults == { [result |-> "r1"], [result |-> "r2"] }

\* Python's order on the context words
WordRank(w) == CASE w = "x" -> 1 [] w = "y" -> 2 [] OTHER -> 3

RECURSIVE InsertSorted(_, _)
InsertSorted(sorted, w) ==
    IF sorted = <<>> THEN <<w>>
    ELSE IF WordRank(w) < WordRank(Head(sorted)) THEN <<w>> \o sorted
    ELSE <<Head(sorted)>> \o InsertSorted(Tail(sorted), w)

\* sorted(list)
RECURSIVE Sorted(_)
Sorted(list) ==
    IF list = <<>> THEN <<>>
    ELSE InsertSorted(Sorted(SubSeq(list, 1, Len(list) - 1)), list[Len(list)])

\* Variant of NF_make_key that keeps the context words in the caller's order
NF_make_key_Unsorted(seed_word, sense_context, k) ==
    LET seed_normalized == Strip(Lower(seed_word))
        context_tuple   == IF sense_context # None /\ sense_context.list # <<>>
                           THEN sense_context.list ELSE <<>>
    IN  <<seed_normalized, context_tuple, k>>

\* NoiseFloorCache._make_key
NF_make_key(seed_word, sense_context, k) ==
    LET seed_normalized == Strip(Lower(seed_word))
        context_tuple   == IF sense_context # None /\ sense_context.list # <<>>
                           THEN Sorted(sense_context.list) ELSE <<>>
    IN  <<seed_normalized, context_tuple, k>>

\* NoiseFloorCache._is_expired
NF_is_expired(ts, t) == t - ts > TtlSeconds

\* Variant of NF_get that counts an expired entry as a miss but leaves it cached
NF_get_KeepExpired(st, key, t) ==
    LET i == IndexOf(st.cache, key)
    IN  IF i # 0 /\ ~NF_is_expired(st.cache[i].ts, t)
        THEN [cache |-> MoveToEnd(st.cache, key), hits |-> st.hits + 1,
              misses |-> st.misses, value |-> st.cache[i].value]
        ELSE [cache |-> st.cache,
              hits |-> st.hits, misses |-> st.misses + 1, value |-> None]

\* NoiseFloorCache.get, the part under the lock, on st = [cache, hits, misses]
NF_get(st, key, t) ==
    LET i == IndexOf(st.cache, key)
    IN  IF i # 0 /\ ~NF_is_expired(st.cache[i].ts, t)
        THEN [cache |-> MoveToEnd(st.cache, key), hits |-> st.hits + 1,
              misses |-> st.misses, value |-> st.cache[i].value]
        ELSE [cache |-> IF i # 0 THEN RemoveAt(st.cache, i) ELSE st.cache,
              hits |-> st.hits, misses |-> st.misses + 1, value |-> None]

\* while len(self._cache) >= self._max_size: self._cache.popitem(last=False)
RECURSIVE NfPopWhileFull(_)
NfPopWhileFull(cache) ==
    IF Len(cache) >= NfMaxSize /\ cache # <<>> THEN NfPopWhileFull(Tail(cache)) ELSE cache

\* NoiseFloorCache.put, the part under the lock
NF_put(cache, key, result, t) == SetItem(NfPopWhileFull(cache), key, result, t)

\* History: the recency order after an access to `key` with the keys of `cache` left.
Touch(recency, key, cache) ==
    Append(SelectSeq(recency, LAMBDA k : k # key /\ HasKey(cache, k)), key)

Forget(recency, cache) == SelectSeq(recency, LAMBDA k : HasKey(cache, k))

\* NoiseFloorCache.get(seed_word, sense_context, k)
NfGet(seed_word, sense_context, k) ==
    /\ nfOps < NfMaxOps
    /\ nfOps' = nfOps + 1
    /\ LET key == NF_make_key(seed_word, sense_context, k)
           got == NF_get([cache |-> nfCache, hits |-> nfHits, misses |-> nfMisses],
                         key, now)
       IN  /\ nfCache' = got.cache
           /\ nfHits' = got.hits
           /\ nfMisses' = got.misses
           /\ nfLast' = [op |-> "get", key |-> key, value |-> got.value,
                         evicted |-> <<>>]
           /\ nfRecency' = IF got.value # None THEN Touch(nfRecency, key, got.cache)
                           ELSE Forget(nfRecency, got.cache)
    /\ UNCHANGED now

\* NoiseFloorCache.put(seed_word, result, sense_context, k)
NfPut(seed_word, result, sense_context, k) ==
    /\ nfOps < NfMaxOps
    /\ nfOps' = nfOps + 1
    /\ LET key   == NF_make_key(seed_word, sense_context, k)
           after == NF_put(nfCache, key, result, now)
       IN  /\ nfCache' = after
           /\ nfLast' = [op |-> "put", key |-> key, value |-> result,
                         evicted |-> EvictedByPut(nfCache, after, key)]
           /\ nfRecency' = Touch(nfRecency, key, after)
    /\ UNCHANGED <<now, nfHits, nfMisses>>

\* NoiseFloorCache.clear
NfClear ==
    /\ nfOps < NfMaxOps
    /\ nfOps' = nfOps + 1
    /\ nfCache' = <<>>
    /\ nfHits' = 0
    /\ nfMisses' = 0
    /\ nfLast' = [op |-> "clear", key |-> <<>>, value |-> None, evicted |-> <<>>]
    /\ nfRecency' = <<>>
    /\ UNCHANGED now

NfTick == Tick /\ UNCHANGED <<ecVars, nfVars, preVars, extVars>>

NfNext ==
    \/ \E seed \in NfSeeds, ctx \in NfContexts, k \in NfKs :
          NfGet(seed, ctx, k) /\ UNCHANGED <<ecVars, preVars, extVars>>
    \/ \E seed \in NfSeeds, result \in NfResults, ctx \in NfContexts, k \in NfKs :
          NfPut(seed, result, ctx, k) /\ UNCHANGED <<ecVars, preVars, extVars>>
    \/ NfClear /\ UNCHANGED <<ecVars, preVars, extVars>>
    \/ NfTick

SpecNF == Init /\ [][NfNext]_vars

(***************************************************************************)
(* Claims about LRU eviction.                                              *)
(***************************************************************************)

\* C2: when the cache is full and a new key is inserted, the entry evicted is the
\* least recently used one: the entry whose last access (hit or insertion) is
\* oldest.
C2_EvictsLeastRecentlyUsed ==
    [][ ( /\ nfOps' = nfOps + 1
          /\ nfLast'.op = "put"
          /\ ~HasKey(nfCache, nfLast'.key)
          /\ nfLast'.evicted # <<>> )
        => nfLast'.evicted = << Head(nfRecency) >> ]_vars

(***************************************************************************)
(* Part C.  EagerPrecompute                                                *)
(***************************************************************************)

\* an Optional field of a PrecomputeResult that is still None
Unset == "None"


\* PrecomputeStatus
PENDING == "pending"
IN_PROGRESS == "in_progress"
COMPLETED == "completed"
FAILED == "failed"

RecipientTypes == { "human", "haiku" }

\* Variant of PrecomputeResult that leaves status at the dataclass default
PrecomputeResult_Pending(game_id, t) ==
    [game_id           |-> game_id,
     status            |-> PENDING,
     started_at        |-> t,
     completed_at      |-> NoTime,
     error             |-> Unset,
     anchor_embedding  |-> Unset,
     target_embedding  |-> Unset,
     haiku_clues       |-> Unset,
     haiku_embeddings  |-> Unset,
     lexical_bridge    |-> Unset,
     lexical_embeddings |-> Unset,
     null_samples      |-> Unset]

\* PrecomputeResult(game_id=game_id, status=IN_PROGRESS, started_at=datetime.now())
PrecomputeResult(game_id, t) ==
    [game_id           |-> game_id,
     status            |-> IN_PROGRESS,
     started_at        |-> t,
     completed_at      |-> NoTime,
     error             |-> Unset,
     anchor_embedding  |-> Unset,
     target_embedding  |-> Unset,
     haiku_clues       |-> Unset,
     haiku_embeddings  |-> Unset,
     lexical_bridge    |-> Unset,
     lexical_embeddings |-> Unset,
     null_samples      |-> Unset]

\* asyncio.create_task(self._run_precomputation(...)): the task exists and has not
\* run yet
NewRoutine(recipient_type) ==
    [pc |-> "scheduled", recipient_type |-> recipient_type,
     embed |-> "-", haiku |-> "-", lexical |-> "-", null |-> "-"]

Running(rt) == rt.pc \in {"scheduled", "gather"}

\* Variant of DictGet that falls back to the most recently inserted record
DictGet_Latest(dict, game_id) ==
    LET i == IndexOf(dict, game_id)
    IN  IF i # 0 THEN dict[i].value
        ELSE IF Len(dict) > 0 THEN dict[Len(dict)].value ELSE 0

\* dict.get(game_id): the record's allocation number, 0 for None
DictGet(dict, game_id) ==
    LET i == IndexOf(dict, game_id) IN IF i = 0 THEN 0 ELSE dict[i].value

\* dict[game_id] = result: an existing key keeps its place in the dict's order
DictSet(dict, game_id, r) ==
    LET i == IndexOf(dict, game_id)
        e == [key |-> game_id, value |-> r]
    IN  IF i = 0 THEN Append(dict, e) ELSE [dict EXCEPT ![i] = e]

\* _cleanup_old_results, first loop: the ids whose record completed before the cutoff
ToRemove(recs, dict, t) ==
    LET cutoff == t - RESULT_TTL_MINUTES
    IN  { dict[i].key : i \in { j \in 1..Len(dict) :
            /\ recs[dict[j].value].completed_at # NoTime
            /\ recs[dict[j].value].completed_at < cutoff } }

\* Variant of OldestIndex that takes the entry started last
OldestIndex_Newest(recs, dict) ==
    CHOOSE i \in 1..Len(dict) :
        \A j \in 1..Len(dict) :
            \/ recs[dict[i].value].started_at > recs[dict[j].value].started_at
            \/ /\ recs[dict[i].value].started_at = recs[dict[j].value].started_at
               /\ i >= j

\* min(self._results.keys(), key=lambda k: self._results[k].started_at): the first
\* key, in dict order, of the least started_at
OldestIndex(recs, dict) ==
    CHOOSE i \in 1..Len(dict) :
        \A j \in 1..Len(dict) :
            \/ recs[dict[i].value].started_at < recs[dict[j].value].started_at
            \/ /\ recs[dict[i].value].started_at = recs[dict[j].value].started_at
               /\ i <= j

\* _cleanup_old_results, second loop: while len(self._results) > MAX_CACHED_RESULTS
RECURSIVE CapResults(_, _)
CapResults(recs, st) ==
    IF Len(st.results) > MAX_CACHED_RESULTS
    THEN LET i == OldestIndex(recs, st.results)
         IN  CapResults(recs, [results |-> RemoveAt(st.results, i),
                               tasks   |-> [st.tasks EXCEPT ![st.results[i].key] = 0]])
    ELSE st

\* Variant of Cleanup_old_results whose first loop leaves the task handles
Cleanup_old_results_KeepTasks(recs, st, t) ==
    LET gone == ToRemove(recs, st.results, t)
        kept == [results |-> SelectSeq(st.results, LAMBDA e : e.key \notin gone),
                 tasks   |-> st.tasks]
    IN  CapResults(recs, kept)

\* EagerPrecompute._cleanup_old_results on st = [results, tasks]
Cleanup_old_results(recs, st, t) ==
    LET gone == ToRemove(recs, st.results, t)
        kept == [results |-> SelectSeq(st.results, LAMBDA e : e.key \notin gone),
                 tasks   |-> [g \in GameIds |-> IF g \in gone THEN 0 ELSE st.tasks[g]]]
    IN  CapResults(recs, kept)

\* what the last EagerPrecompute call was and returned: value is the record's
\* allocation number (0: None), since/at the times of the call and of its return
PreEvent(op, game_id, value, waited, timed_out, since, timeout, t) ==
    [op |-> op, game_id |-> game_id, value |-> value, waited |-> waited,
     timed_out |-> timed_out, since |-> since, timeout |-> timeout, at |-> t]

\* start_bridging_precompute(game_id, anchor, target, recipient_type, supabase):
\* the record is stored, old results are cleaned up, the task is created and
\* stored; nothing is awaited in between.
StartBridgingPrecompute(game_id, recipient_type) ==
    /\ Len(records) < MaxRecords
    /\ LET r    == Len(records) + 1
           recs == Append(records, PrecomputeResult(game_id, now))
           st   == Cleanup_old_results(recs,
                       [results |-> DictSet(results, game_id, r), tasks |-> tasks], now)
       IN  /\ records' = recs
           /\ results' = st.results
           /\ tasks' = [st.tasks EXCEPT ![game_id] = r]
           /\ routines' = Append(routines, NewRoutine(recipient_type))
           /\ preLast' = PreEvent("start", game_id, r, FALSE, FALSE, now, 0, now)
    /\ everStarted' = everStarted \cup {game_id}
    /\ UNCHANGED <<now, waiters, timedOut>>

\* _run_precomputation starts: the imports and get_instance calls succeed and
\* asyncio.gather schedules the subtasks.
RunStart(r) ==
    /\ r \in 1..Len(routines)
    /\ routines[r].pc = "scheduled"
    /\ routines' = [routines EXCEPT ![r] =
           [@ EXCEPT !.pc = "gather",
                     !.embed = "calling",
                     !.haiku = IF routines[r].recipient_type = "haiku" THEN "calling" ELSE "skipped",
                     !.lexical = "calling",
                     !.null = "start"]]
    /\ UNCHANGED <<now, records, results, tasks, waiters, preLast, everStarted, timedOut>>

\* _run_precomputation raises before the gather (an import or get_instance
\* fails): except Exception sets FAILED and the error.
RunSetupRaises(r) ==
    /\ r \in 1..Len(routines)
    /\ routines[r].pc = "scheduled"
    /\ routines' = [routines EXCEPT ![r].pc = "done"]
    /\ records' = [records EXCEPT ![r].status = FAILED, ![r].error = "error"]
    /\ UNCHANGED <<now, results, tasks, waiters, preLast, everStarted, timedOut>>

InGather(r) == r \in 1..Len(routines) /\ routines[r].pc = "gather"

\* Variant of EmbedReturns that writes the anchor embedding only
EmbedReturns_AnchorOnly(r) ==
    /\ InGather(r)
    /\ routines[r].embed = "calling"
    /\ routines' = [routines EXCEPT ![r].embed = "done"]
    /\ records' = [records EXCEPT ![r].anchor_embedding = "vec"]
    /\ UNCHANGED <<now, results, tasks, waiters, preLast, everStarted, timedOut>>

\* embed_anchor_target: get_embeddings_batch([anchor, target]) returns
EmbedReturns(r) ==
    /\ InGather(r)
    /\ routines[r].embed = "calling"
    /\ routines' = [routines EXCEPT ![r].embed = "done"]
    /\ records' = [records EXCEPT ![r].anchor_embedding = "vec",
                                  ![r].target_embedding = "vec"]
    /\ UNCHANGED <<now, results, tasks, waiters, preLast, everStarted, timedOut>>

\* embed_anchor_target: get_embeddings_batch raises; gather keeps the exception
EmbedRaises(r) ==
    /\ InGather(r)
    /\ routines[r].embed = "calling"
    /\ routines' = [routines EXCEPT ![r].embed = "failed"]
    /\ UNCHANGED <<now, records, results, tasks, waiters, preLast, everStarted, timedOut>>

\* generate_haiku: haiku_build_bridge returns its clues (a list, possibly empty)
HaikuReturns(r, clues) ==
    /\ InGather(r)
    /\ routines[r].haiku = "calling"
    /\ routines' = [routines EXCEPT ![r].haiku =
                        IF clues = "clues" THEN "embedding" ELSE "done"]
    /\ records' = [records EXCEPT ![r].haiku_clues = clues]
    /\ UNCHANGED <<now, results, tasks, waiters, preLast, everStarted, timedOut>>

\* generate_haiku: get_embeddings_batch(haiku_clues) returns
HaikuEmbedded(r) ==
    /\ InGather(r)
    /\ routines[r].haiku = "embedding"
    /\ routines' = [routines EXCEPT ![r].haiku = "done"]
    /\ records' = [records EXCEPT ![r].haiku_embeddings = "vecs"]
    /\ UNCHANGED <<now, results, tasks, waiters, preLast, everStarted, timedOut>>

\* generate_haiku: either call raises; except Exception sets haiku_clues = []
HaikuRaises(r) ==
    /\ InGather(r)
    /\ routines[r].haiku \in {"calling", "embedding"}
    /\ routines' = [routines EXCEPT ![r].haiku = "done"]
    /\ records' = [records EXCEPT ![r].haiku_clues = "empty"]
    /\ UNCHANGED <<now, results, tasks, waiters, preLast, everStarted, timedOut>>

\* compute_lexical_union: find_lexical_union returns its words (possibly none)
LexicalReturns(r, words) ==
    /\ InGather(r)
    /\ routines[r].lexical = "calling"
    /\ routines' = [routines EXCEPT ![r].lexical =
                        IF words = "words" THEN "embedding" ELSE "done"]
    /\ records' = [records EXCEPT ![r].lexical_bridge = words]
    /\ UNCHANGED <<now, results, tasks, waiters, preLast, everStarted, timedOut>>

\* compute_lexical_union: get_embeddings_batch(lexical_words) returns
LexicalEmbedded(r) ==
    /\ InGather(r)
    /\ routines[r].lexical = "embedding"
    /\ routines' = [routines EXCEPT ![r].lexical = "done"]
    /\ records' = [records EXCEPT ![r].lexical_embeddings = "vecs"]
    /\ UNCHANGED <<now, results, tasks, waiters, preLast, everStarted, timedOut>>

\* Variant of LexicalRaises in which the failure also marks the record FAILED
LexicalRaises_Fails(r) ==
    /\ InGather(r)
    /\ routines[r].lexical \in {"calling", "embedding"}
    /\ routines' = [routines EXCEPT ![r].lexical = "done"]
    /\ records' = [records EXCEPT ![r].lexical_bridge = "empty", ![r].status = FAILED]
    /\ UNCHANGED <<now, results, tasks, waiters, preLast, everStarted, timedOut>>

\* compute_lexical_union: either call raises; except Exception sets
\* lexical_bridge = []
LexicalRaises(r) ==
    /\ InGather(r)
    /\ routines[r].lexical \in {"calling", "embedding"}
    /\ routines' = [routines EXCEPT ![r].lexical = "done"]
    /\ records' = [records EXCEPT ![r].lexical_bridge = "empty"]
    /\ UNCHANGED <<now, results, tasks, waiters, preLast, everStarted, timedOut>>

\* compute_null_samples after its wait: the 100 bootstrap scores are computed and
\* stored sorted, or an exception sets null_samples = []
NullComputed(rec, ok) ==
    [rec EXCEPT !.null_samples = IF ok THEN "samples" ELSE "empty"]

\* Variant of NullStart without the wait for the anchor embedding
NullStart_NoWait(r, pool) ==
    /\ InGather(r)
    /\ routines[r].null = "start"
    /\ routines' = [routines EXCEPT ![r].null = "done"]
    /\ records' = IF pool = "few" THEN records
                  ELSE [records EXCEPT ![r] = NullComputed(@, pool = "enough")]
    /\ UNCHANGED <<now, results, tasks, waiters, preLast, everStarted, timedOut>>

\* compute_null_samples up to its first suspension. pool: what
\* pool.get_random_with_embeddings(200) gives ("few": under 50 pairs, "enough":
\* 50 or more, "raises": an exception before the wait, such as a failing import).
NullStart(r, pool) ==
    /\ InGather(r)
    /\ routines[r].null = "start"
    /\ IF pool = "few"
       THEN /\ routines' = [routines EXCEPT ![r].null = "done"]
            /\ records' = records
       ELSE IF pool = "raises"
       THEN /\ routines' = [routines EXCEPT ![r].null = "done"]
            /\ records' = [records EXCEPT ![r] = NullComputed(@, FALSE)]
       ELSE IF records[r].anchor_embedding # Unset
       THEN /\ routines' = [routines EXCEPT ![r].null = "done"]
            /\ records' = [records EXCEPT ![r] = NullComputed(@, TRUE)]
       ELSE /\ routines' = [routines EXCEPT ![r].null = "waiting"]
            /\ records' = records
    /\ UNCHANGED <<now, results, tasks, waiters, preLast, everStarted, timedOut>>

\* compute_null_samples: asyncio.sleep(0.1) returns and the loop tests
\* result.anchor_embedding is None again
NullWakes(r, ok) ==
    /\ InGather(r)
    /\ routines[r].null = "waiting"
    /\ IF records[r].anchor_embedding = Unset
       THEN UNCHANGED <<routines, records>>
       ELSE /\ routines' = [routines EXCEPT ![r].null = "done"]
            /\ records' = [records EXCEPT ![r] = NullComputed(@, ok)]
    /\ UNCHANGED <<now, results, tasks, waiters, preLast, everStarted, timedOut>>

\* every coroutine given to asyncio.gather has returned or raised
GatherDone(rt) ==
    /\ rt.embed \in {"done", "failed"}
    /\ rt.haiku \in {"done", "skipped"}
    /\ rt.lexical = "done"
    /\ rt.null = "done"

\* Variant of RunCompletes that marks the record COMPLETED as soon as the gather
\* has started, while subtasks still write to it
RunCompletes_Early(r) ==
    /\ InGather(r)
    /\ records[r].status = IN_PROGRESS
    /\ records' = [records EXCEPT ![r].status = COMPLETED, ![r].completed_at = now]
    /\ UNCHANGED <<now, routines, results, tasks, waiters, preLast, everStarted, timedOut>>

\* _run_precomputation after the gather: status = COMPLETED, completed_at = now
RunCompletes(r) ==
    /\ InGather(r)
    /\ GatherDone(routines[r])
    /\ routines' = [routines EXCEPT ![r].pc = "done"]
    /\ records' = [records EXCEPT ![r].status = COMPLETED, ![r].completed_at = now]
    /\ UNCHANGED <<now, results, tasks, waiters, preLast, everStarted, timedOut>>

Terminal(rec) == rec.status \in {COMPLETED, FAILED}

\* asyncio.wait_for(asyncio.shield(task), timeout) timing out: the shield takes the
\* cancellation, the task keeps running
ShieldedTimeout(rts, r) == rts

\* get_precomputed_results(game_id, timeout_seconds) up to its return or its
\* suspension in wait_for
GetPrecomputedResultsCall(game_id, timeout) ==
    LET r == DictGet(results, game_id)
    IN  /\ IF r = 0
           THEN \* if result is None: return None
                /\ preLast' = PreEvent("get", game_id, 0, FALSE, FALSE, now, timeout, now)
                /\ UNCHANGED <<waiters, routines, timedOut>>
           ELSE IF Terminal(records[r])
           THEN /\ preLast' = PreEvent("get", game_id, r, FALSE, FALSE, now, timeout, now)
                /\ UNCHANGED <<waiters, routines, timedOut>>
           ELSE IF tasks[game_id] = 0
           THEN \* if task: is false, nothing to wait for
                /\ preLast' = PreEvent("get", game_id, r, FALSE, FALSE, now, timeout, now)
                /\ UNCHANGED <<waiters, routines, timedOut>>
           ELSE IF timeout = 0 /\ ~Running(routines[tasks[game_id]])
           THEN \* wait_for(timeout <= 0) of a task that is done returns without
                \* suspending
                /\ preLast' = PreEvent("get", game_id, r, FALSE, FALSE, now, timeout, now)
                /\ UNCHANGED <<waiters, routines, timedOut>>
           ELSE \* wait_for suspends: with no time left until the shield is
                \* cancelled, otherwise until the task is done or the timer fires
                /\ Len(waiters) < MaxWaiters
                /\ waiters' = Append(waiters, [game_id |-> game_id, rec |-> r,
                                  task |-> tasks[game_id], since |-> now,
                                  timeout |-> timeout])
                /\ preLast' = PreEvent("wait", game_id, r, TRUE, FALSE, now, timeout, now)
                /\ UNCHANGED <<routines, timedOut>>
        /\ UNCHANGED <<now, records, results, tasks, everStarted>>

\* the awaited task finished (or was cancelled, which get_precomputed_results
\* swallows) before wait_for gave up: the suspended call returns its record. A
\* wait_for with no time left has cancelled the shield and only times out.
GetPrecomputedResultsWakes(i) ==
    /\ i \in 1..Len(waiters)
    /\ ~Running(routines[waiters[i].task])
    /\ waiters[i].timeout > 0
    /\ preLast' = PreEvent("get", waiters[i].game_id, waiters[i].rec, TRUE, FALSE,
                           waiters[i].since, waiters[i].timeout, now)
    /\ waiters' = RemoveAt(waiters, i)
    /\ UNCHANGED <<now, records, routines, results, tasks, everStarted, timedOut>>

\* timeout_seconds passed: wait_for cancels the shield, TimeoutError is caught and
\* the record returned as it is then. The timer callback and the return run when
\* the event loop gets to them, which is later than the timeout when another
\* callback held the loop; the routine runs on until the return, and may have
\* finished.
GetPrecomputedResultsTimesOut(i) ==
    /\ i \in 1..Len(waiters)
    /\ now >= waiters[i].since + waiters[i].timeout
    /\ preLast' = PreEvent("get", waiters[i].game_id, waiters[i].rec, TRUE, TRUE,
                           waiters[i].since, waiters[i].timeout, now)
    /\ routines' = ShieldedTimeout(routines, waiters[i].task)
    /\ timedOut' = timedOut \cup {waiters[i].rec}
    /\ waiters' = RemoveAt(waiters, i)
    /\ UNCHANGED <<now, records, results, tasks, everStarted>>

\* task.cancel(): a task that has not finished ends at its next suspension point
\* with CancelledError, which no except Exception clause catches
Cancel(rt) ==
    IF Running(rt)
    THEN [pc |-> "cancelled", recipient_type |-> rt.recipient_type,
          embed |-> "-", haiku |-> "-", lexical |-> "-", null |-> "-"]
    ELSE rt

\* the tasks reset_instance cancels: cls._instance._tasks.values()
TasksToCancel(tks) == { tks[g] : g \in GameIds } \ {0}

\* EagerPrecompute.reset_instance(): the next get_instance() builds an instance
\* with empty _results and _tasks
ResetInstance ==
    /\ routines' = [r \in 1..Len(routines) |->
                        IF r \in TasksToCancel(tasks) THEN Cancel(routines[r])
                        ELSE routines[r]]
    /\ results' = <<>>
    /\ tasks' = [g \in GameIds |-> 0]
    /\ preLast' = PreEvent("reset", "", 0, FALSE, FALSE, now, 0, now)
    /\ UNCHANGED <<now, records, waiters, everStarted, timedOut>>

\* the clock advances, also while a suspended wait_for is due: a callback that
\* holds the event loop (the synchronous rpc of find_lexical_union) lets time
\* pass before the timer or the wake-up is served
PreTick ==
    /\ Tick
    /\ UNCHANGED <<ecVars, nfVars, preVars, extVars>>

\* the steps of one _run_precomputation task
RoutineStep(r) ==
    \/ RunStart(r)
    \/ RunSetupRaises(r)
    \/ EmbedReturns(r)
    \/ EmbedRaises(r)
    \/ \E clues \in {"clues", "empty"} : HaikuReturns(r, clues)
    \/ HaikuEmbedded(r)
    \/ HaikuRaises(r)
    \/ \E words \in {"words", "empty"} : LexicalReturns(r, words)
    \/ LexicalEmbedded(r)
    \/ LexicalRaises(r)
    \/ \E pool \in {"few", "enough", "raises"} : NullStart(r, pool)
    \/ \E ok \in BOOLEAN : NullWakes(r, ok)
    \/ RunCompletes(r)

\* One precomputation followed through every subtask, with callers asking for
\* its results.
RunNext ==
    \/ /\ Len(records) < MaxDetailed
       /\ \E rt \in RecipientTypes : StartBridgingPrecompute("g1", rt)
       /\ UNCHANGED <<ecVars, nfVars, extVars>>
    \/ \E r \in 1..MaxDetailed : RunStart(r) /\ UNCHANGED <<ecVars, nfVars, extVars>>
    \/ \E r \in 1..MaxDetailed : RunSetupRaises(r) /\ UNCHANGED <<ecVars, nfVars, extVars>>
    \/ \E r \in 1..MaxDetailed : EmbedReturns(r) /\ UNCHANGED <<ecVars, nfVars, extVars>>
    \/ \E r \in 1..MaxDetailed : EmbedRaises(r) /\ UNCHANGED <<ecVars, nfVars, extVars>>
    \/ \E r \in 1..MaxDetailed, clues \in {"clues", "empty"} :
           HaikuReturns(r, clues) /\ UNCHANGED <<ecVars, nfVars, extVars>>
    \/ \E r \in 1..MaxDetailed : HaikuEmbedded(r) /\ UNCHANGED <<ecVars, nfVars, extVars>>
    \/ \E r \in 1..MaxDetailed : HaikuRaises(r) /\ UNCHANGED <<ecVars, nfVars, extVars>>
    \/ \E r \in 1..MaxDetailed, words \in {"words", "empty"} :
           LexicalReturns(r, words) /\ UNCHANGED <<ecVars, nfVars, extVars>>
    \/ \E r \in 1..MaxDetailed : LexicalEmbedded(r) /\ UNCHANGED <<ecVars, nfVars, extVars>>
    \/ \E r \in 1..MaxDetailed : LexicalRaises(r) /\ UNCHANGED <<ecVars, nfVars, extVars>>
    \/ \E r \in 1..MaxDetailed, pool \in {"few", "enough", "raises"} :
           NullStart(r, pool) /\ UNCHANGED <<ecVars, nfVars, extVars>>
    \/ \E r \in 1..MaxDetailed, ok \in BOOLEAN :
           NullWakes(r, ok) /\ UNCHANGED <<ecVars, nfVars, extVars>>
    \/ \E r \in 1..MaxDetailed : RunCompletes(r) /\ UNCHANGED <<ecVars, nfVars, extVars>>
    \/ \E g \in {"g1", "g2"}, t \in 0..MaxTimeout :
           GetPrecomputedResultsCall(g, t) /\ UNCHANGED <<ecVars, nfVars, extVars>>
    \/ \E i \in 1..MaxWaiters : GetPrecomputedResultsWakes(i) /\ UNCHANGED <<ecVars, nfVars, extVars>>
    \/ \E i \in 1..MaxWaiters : GetPrecomputedResultsTimesOut(i) /\ UNCHANGED <<ecVars, nfVars, extVars>>
    \/ ResetInstance /\ UNCHANGED <<ecVars, nfVars, extVars>>
    \/ PreTick

SpecRun == Init /\ [][RunNext]_vars

\* The event loop runs every task that can take a step.
FairRoutines ==
    \E r \in 1..MaxDetailed : RoutineStep(r) /\ UNCHANGED <<ecVars, nfVars, extVars>>

FairSpecRun == Init /\ [][RunNext]_vars /\ WF_vars(FairRoutines)

\* Several games started, restarted and evicted over time; each precomputation
\* is a "human" game whose embeddings arrive, whose vocabulary pool has too few
\* samples and whose lexical union fails.
LifecycleNext ==
    \/ \E g \in GameIds : StartBridgingPrecompute(g, "human") /\ UNCHANGED <<ecVars, nfVars, extVars>>
    \/ \E r \in 1..MaxRecords : RunStart(r) /\ UNCHANGED <<ecVars, nfVars, extVars>>
    \/ \E r \in 1..MaxRecords : RunSetupRaises(r) /\ UNCHANGED <<ecVars, nfVars, extVars>>
    \/ \E r \in 1..MaxRecords : EmbedReturns(r) /\ UNCHANGED <<ecVars, nfVars, extVars>>
    \/ \E r \in 1..MaxRecords : LexicalRaises(r) /\ UNCHANGED <<ecVars, nfVars, extVars>>
    \/ \E r \in 1..MaxRecords : NullStart(r, "few") /\ UNCHANGED <<ecVars, nfVars, extVars>>
    \/ \E r \in 1..MaxRecords : RunCompletes(r) /\ UNCHANGED <<ecVars, nfVars, extVars>>
    \/ ResetInstance /\ UNCHANGED <<ecVars, nfVars, extVars>>
    \/ PreTick

SpecLifecycle == Init /\ [][LifecycleNext]_vars

(***************************************************************************)
(* Claims about EagerPrecompute.                                           *)
(***************************************************************************)

\* every provider and store call of the routine has returned or raised; the null
\* subtask may still be in its asyncio.sleep loop
ProviderCallsReturned(rt) ==
    /\ rt.embed \in {"done", "failed"}
    /\ rt.haiku \in {"done", "skipped"}
    /\ rt.lexical = "done"
    /\ rt.null \in {"waiting", "done"}

\* C5: whatever subtasks succeed or fail, a started task whose provider and store
\* calls have all returned or raised eventually reaches COMPLETED (unless it is
\* cancelled by a reset).
C5_EventuallyCompleted ==
    \A r \in 1..MaxDetailed :
        ( /\ r <= Len(routines)
          /\ routines[r].pc = "gather"
          /\ ProviderCallsReturned(routines[r]) )
        ~> ( /\ r <= Len(routines)
             /\ \/ records[r].status = COMPLETED
                \/ routines[r].pc = "cancelled" )

\* C6: the only status changes of a record are IN_PROGRESS to COMPLETED and
\* IN_PROGRESS to FAILED; a COMPLETED or FAILED record never changes status.
C6_StatusStateMachine ==
    [][ \A r \in 1..Len(records) :
            records'[r].status # records[r].status
            => /\ records[r].status = IN_PROGRESS
               /\ records'[r].status \in {COMPLETED, FAILED} ]_vars

\* a record went from IN_PROGRESS to COMPLETED and a caller was handed it
C6_Witness ==
    /\ preLast.op = "get"
    /\ preLast.value # 0
    /\ records[preLast.value].status = COMPLETED
    /\ records[preLast.value].completed_at # NoTime

\* C7: get_precomputed_results for an id start_bridging_precompute was never called
\* with returns None, which is no record, at once: it does not wait.
C7_NotFound ==
    [][ \A g \in GameIds \ everStarted, t \in 0..MaxTimeout :
            GetPrecomputedResultsCall(g, t)
            => /\ preLast'.op = "get"
               /\ preLast'.game_id = g
               /\ preLast'.value = 0
               /\ preLast'.value \notin 1..Len(records)
               /\ ~preLast'.waited
               /\ preLast'.at = preLast'.since
               /\ waiters' = waiters ]_vars

\* another game is in the result map and a never-started id was asked for
C7_Witness ==
    /\ preLast.op = "get"
    /\ preLast.game_id \notin everStarted
    /\ preLast.value = 0
    /\ results # <<>>

\* C8: get_precomputed_results returns at once when the record is COMPLETED or
\* FAILED; otherwise it returns within timeout; a timeout returns the record and
\* leaves the routine as it was: the timeout does not cancel it.
C8_GetWaitsAtMostTimeout ==
    [][ /\ \A g \in GameIds, t \in 0..MaxTimeout :
               ( /\ DictGet(results, g) # 0
                 /\ Terminal(records[DictGet(results, g)])
                 /\ GetPrecomputedResultsCall(g, t) )
               => /\ preLast'.op = "get"
                  /\ preLast'.value = DictGet(results, g)
                  /\ ~preLast'.waited
                  /\ waiters' = waiters
        /\ (preLast' # preLast /\ preLast'.op = "get")
               => /\ preLast'.at - preLast'.since <= preLast'.timeout
                  /\ preLast'.timed_out
                         => /\ preLast'.value # 0
                            /\ routines' = routines ]_vars

\* C9: after reset_instance no routine started before it is still running.
C9_ResetCancelsAll ==
    preLast.op = "reset" => \A r \in 1..Len(routines) : ~Running(routines[r])

\* the age of a record: since it completed, or since it started when it never did
Age(rec, t) ==
    t - (IF rec.completed_at # NoTime THEN rec.completed_at ELSE rec.started_at)

\* C10: right after start_bridging_precompute no record older than the TTL is in
\* the result map, whatever its status.
C10_NoRecordOlderThanTtl ==
    (preLast.op = "start" /\ preLast.at = now)
    => \A i \in 1..Len(results) :
           Age(records[results[i].value], now) <= RESULT_TTL_MINUTES

\* this step is start_bridging_precompute(g, ...) allocating its record
IsStart(g) ==
    /\ Len(records') = Len(records) + 1
    /\ preLast'.op = "start"
    /\ preLast'.game_id = g

\* the record numbers in the result map
Cached(dict) == { dict[i].value : i \in 1..Len(dict) }

\* the records in the map once the new one is stored and the records completed
\* before the cutoff are gone: those the capacity loop chooses among
PresentAtCap(g) ==
    LET stored == DictSet(results, g, Len(records'))
    IN  { stored[i].value : i \in { j \in 1..Len(stored) :
              stored[j].key \notin ToRemove(records', stored, now) } }

\* C11: after every start_bridging_precompute the result map holds at most
\* MAX_CACHED_RESULTS records; a record evicted for capacity started no later
\* than every record kept, and the record just inserted is kept.
C11_CapacityEvictsOldest ==
    [][ \A g \in GameIds :
            IsStart(g)
            => /\ Len(results') <= MAX_CACHED_RESULTS
               /\ Len(records') \in Cached(results')
               /\ Cached(results') \subseteq PresentAtCap(g)
               /\ \A e \in PresentAtCap(g) \ Cached(results'), k \in Cached(results') :
                      records'[e].started_at <= records'[k].started_at ]_vars

\* a third game was started while two were cached: the first one, still running
\* and never completed, was evicted for capacity
C11_Witness ==
    /\ preLast.op = "start"
    /\ preLast.value = 3
    /\ Len(results) = MAX_CACHED_RESULTS
    /\ records[1].game_id # records[2].game_id
    /\ 1 \notin Cached(results)
    /\ Running(routines[1])
    /\ records[1].completed_at = NoTime

\* C12: a COMPLETED record is read-only: no step changes any of its fields, and a
\* get_precomputed_results for an id whose cached record is COMPLETED returns
\* that record, so two reads while it stays cached return equal snapshots.
C12_CompletedIsReadOnly ==
    [][ /\ \A r \in 1..Len(records) :
               records[r].status = COMPLETED => records'[r] = records[r]
        /\ \A g \in GameIds, t \in 0..MaxTimeout :
               ( /\ DictGet(results, g) # 0
                 /\ records[DictGet(results, g)].status = COMPLETED
                 /\ GetPrecomputedResultsCall(g, t) )
               => /\ preLast'.value = DictGet(results, g)
                  /\ records' = records
                  /\ results' = results ]_vars

\* a caller read a COMPLETED record with every field filled, some time after it
\* had completed
C12_Witness ==
    /\ preLast.op = "get"
    /\ preLast.value # 0
    /\ ~preLast.waited
    /\ records[preLast.value].status = COMPLETED
    /\ records[preLast.value].null_samples = "samples"
    /\ records[preLast.value].haiku_embeddings = "vecs"
    /\ records[preLast.value].lexical_embeddings = "vecs"
    /\ preLast.at > records[preLast.value].completed_at

\* C13: null_samples is non-empty only when anchor_embedding and target_embedding
\* of the same record are written; and once they are, a null subtask that has
\* its pool can finish whatever the generative and lexical subtasks are doing.
C13_NullSamplesAfterEmbeddings ==
    \A r \in 1..Len(records) :
        /\ records[r].null_samples = "samples"
               => /\ records[r].anchor_embedding # Unset
                  /\ records[r].target_embedding # Unset
        /\ ( /\ routines[r].pc = "gather"
             /\ routines[r].null = "waiting"
             /\ records[r].anchor_embedding # Unset )
               => ENABLED ( /\ NullWakes(r, TRUE)
                            /\ records'[r].null_samples = "samples" )

\* the null samples were written while the generative and the lexical subtasks
\* were both still waiting for their first answer
C13_Witness ==
    \E r \in 1..Len(records) :
        /\ records[r].null_samples = "samples"
        /\ routines[r].haiku = "calling"
        /\ routines[r].lexical = "calling"

\* the routines started for a game id that have not finished
RunningFor(g) ==
    { r \in 1..Len(routines) : records[r].game_id = g /\ Running(routines[r]) }

\* C34: at any time at most one background routine is running per game id, also
\* when start_bridging_precompute is called again for an id whose earlier routine
\* has not finished.
C34_OneRoutinePerId ==
    \A g \in GameIds : Cardinality(RunningFor(g)) <= 1

\* the game ids that have a task handle in _tasks
TaskIds == { g \in GameIds : tasks[g] # 0 }

\* C37: between operations, the game ids with a task handle are the game ids with
\* a result record: a start inserts both, TTL and capacity eviction remove both.
C37_TasksMatchResults ==
    TaskIds = KeysOf(results)

\* a start evicted an earlier game: its record and its handle are both gone,
\* the others are both kept
C37_Witness ==
    /\ preLast.op = "start"
    /\ Len(results) = MAX_CACHED_RESULTS
    /\ \E g \in everStarted : ~HasKey(results, g) /\ tasks[g] = 0

\* C38: in every state a reader or the null subtask can see, anchor_embedding is
\* set if and only if target_embedding is set.
C38_AnchorIffTarget ==
    \A r \in 1..Len(records) :
        (records[r].anchor_embedding # Unset) <=> (records[r].target_embedding # Unset)

\* a reader timed out on a record that is still in progress and holds both
\* embeddings, while its null subtask sleeps in the wait for the anchor embedding
C38_Witness ==
    /\ preLast.op = "get"
    /\ preLast.timed_out
    /\ preLast.value # 0
    /\ records[preLast.value].status = IN_PROGRESS
    /\ records[preLast.value].anchor_embedding = "vec"
    /\ records[preLast.value].target_embedding = "vec"
    /\ routines[preLast.value].null = "waiting"

\* the fields of a record each subtask of the gather writes
EmbedFields(rec) == <<rec.anchor_embedding, rec.target_embedding>>

HaikuFields(rec) == <<rec.haiku_clues, rec.haiku_embeddings>>

LexicalFields(rec) == <<rec.lexical_bridge, rec.lexical_embeddings>>

NullFields(rec) == <<rec.null_samples>>

\* the fields no subtask writes
RoutineFields(rec) ==
    <<rec.game_id, rec.status, rec.started_at, rec.completed_at, rec.error>>

\* C31: while the gather runs, a step of one subtask changes only that subtask's
\* fields of the record and never the status; a failing subtask leaves its fields
\* None or an empty list; a game that is not a haiku game keeps its haiku fields
\* unset.
C31_SubtasksWriteOwnFields ==
    [][ \A r \in 1..Len(routines) :
            /\ ( routines[r].pc = "gather" /\ routines'[r].pc = "gather" )
                   => /\ RoutineFields(records'[r]) = RoutineFields(records[r])
                      /\ EmbedFields(records'[r]) # EmbedFields(records[r])
                             => /\ routines'[r].embed # routines[r].embed
                                /\ HaikuFields(records'[r]) = HaikuFields(records[r])
                                /\ LexicalFields(records'[r]) = LexicalFields(records[r])
                                /\ NullFields(records'[r]) = NullFields(records[r])
                      /\ HaikuFields(records'[r]) # HaikuFields(records[r])
                             => /\ routines'[r].haiku # routines[r].haiku
                                /\ EmbedFields(records'[r]) = EmbedFields(records[r])
                                /\ LexicalFields(records'[r]) = LexicalFields(records[r])
                                /\ NullFields(records'[r]) = NullFields(records[r])
                      /\ LexicalFields(records'[r]) # LexicalFields(records[r])
                             => /\ routines'[r].lexical # routines[r].lexical
                                /\ EmbedFields(records'[r]) = EmbedFields(records[r])
                                /\ HaikuFields(records'[r]) = HaikuFields(records[r])
                                /\ NullFields(records'[r]) = NullFields(records[r])
                      /\ NullFields(records'[r]) # NullFields(records[r])
                             => /\ routines'[r].null # routines[r].null
                                /\ EmbedFields(records'[r]) = EmbedFields(records[r])
                                /\ HaikuFields(records'[r]) = HaikuFields(records[r])
                                /\ LexicalFields(records'[r]) = LexicalFields(records[r])
            /\ routines'[r].embed = "failed"
                   => EmbedFields(records'[r]) = <<Unset, Unset>>
            /\ ( routines[r].pc = "gather"
                 /\ routines[r].haiku \in {"calling", "embedding"}
                 /\ routines'[r].haiku = "done"
                 /\ records'[r].haiku_clues = "empty" )
                   => records'[r].haiku_embeddings = Unset
            /\ ( routines[r].pc = "gather"
                 /\ routines[r].lexical \in {"calling", "embedding"}
                 /\ routines'[r].lexical = "done"
                 /\ records'[r].lexical_bridge = "empty" )
                   => records'[r].lexical_embeddings = Unset
            /\ routines'[r].recipient_type # "haiku"
                   => HaikuFields(records'[r]) = <<Unset, Unset>> ]_vars

\* the lexical subtask failed after the embedding and the haiku subtasks had
\* written their fields, and the record is still IN_PROGRESS
C31_Witness ==
    \E r \in 1..Len(records) :
        /\ routines[r].pc = "gather"
        /\ routines[r].lexical = "done"
        /\ records[r].lexical_bridge = "empty"
        /\ records[r].lexical_embeddings = Unset
        /\ records[r].anchor_embedding = "vec"
        /\ records[r].haiku_embeddings = "vecs"
        /\ records[r].status = IN_PROGRESS

(***************************************************************************)
(* Part D.  The relevance percentile of a submission                       *)
(*          (routes/bridging.py)                                           *)
(***************************************************************************)

\* relevance scores; the order of the integers stands for the order of the floats
Scores == 0..MaxScore

\* a percentage as an exact fraction
Pct(num, den) == [num |-> num, den |-> den]

PctEq(a, b) == a.num * b.den = b.num * a.den

PctLess(a, b) == a.num * b.den < b.num * a.den

\* Python's min(a, b) and max(a, b)
PctMin(a, b) == IF PctLess(b, a) THEN b ELSE a

PctMax(a, b) == IF PctLess(a, b) THEN b ELSE a

\* float(np.mean([relevance > r for r in samples]) * 100), samples not empty
Mean100(relevance, samples) ==
    Pct(100 * Cardinality({ i \in 1..Len(samples) : relevance > samples[i] }),
        Len(samples))

\* the vocabulary fetches and bootstrap of _calculate_relevance_percentile: the
\* random relevances computed, a pool shorter than n_clues, or an exception
FallbackOutcomes ==
    { [kind |-> "ok", relevances |-> r] : r \in SeqsUpTo(Scores, MaxSamples) }
    \cup { [kind |-> "short", relevances |-> <<>>],
           [kind |-> "raises", relevances |-> <<>>] }

\* _calculate_relevance_percentile(participant_relevance, ...), given what its
\* fetches and bootstrap produced
Calculate_relevance_percentile(participant_relevance, outcome) ==
    IF outcome.kind # "ok" THEN Pct(50, 1)
    ELSE IF outcome.relevances = <<>> THEN Pct(50, 1)
    ELSE Mean100(participant_relevance, outcome.relevances)

\* precomputed.null_samples of a submission: None (the field unset) or a list
NullSampleInputs == { None } \cup { [list |-> r] : r \in SeqsUpTo(Scores, MaxSamples) }

\* precomputed, what get_precomputed_results returned to the submission: None or
\* the record of the game, which the background routine may still be writing
PrecomputedInputs == { None } \cup { [null_samples |-> ns] : ns \in NullSampleInputs }

\* the precomputed branch of get_relevance_percentile
PrecomputedPercentile(relevance, null_samples) ==
    PctMin(Pct(999, 10), PctMax(Pct(1, 10), Mean100(relevance, null_samples)))

\* submit_bridging_clues.get_relevance_percentile() up to its first suspension:
\* with null samples on the record it returns without awaiting; otherwise it
\* awaits _calculate_relevance_percentile, which suspends at its gather
GetRelevancePercentileCall(relevance, precomputed) ==
    /\ subLast.pc = "idle"
    /\ subLast' =
           IF /\ precomputed # None
              /\ precomputed.null_samples # None
              /\ Len(precomputed.null_samples.list) > 0
           THEN [pc |-> "idle", precomputed |-> precomputed,
                 path |-> "precomputed", relevance |-> relevance,
                 samples |-> precomputed.null_samples.list,
                 percentile |-> PrecomputedPercentile(relevance,
                                    precomputed.null_samples.list)]
           ELSE [pc |-> "fetching", precomputed |-> precomputed,
                 path |-> "fallback", relevance |-> relevance,
                 samples |-> <<>>, percentile |-> Pct(0, 1)]
    /\ UNCHANGED <<now, ecVars, nfVars, preVars, lexUnion, ctxLast, vpPool, vpLoad, callVars>>

\* the fetches of _calculate_relevance_percentile are done: it resumes after the
\* gather and get_relevance_percentile returns its value, whatever the record
\* holds by now
GetRelevancePercentileReturn(outcome) ==
    /\ subLast.pc = "fetching"
    /\ subLast' = [subLast EXCEPT !.pc = "idle",
                                  !.samples = outcome.relevances,
                                  !.percentile = Calculate_relevance_percentile(
                                                     subLast.relevance, outcome)]
    /\ UNCHANGED <<now, ecVars, nfVars, preVars, lexUnion, ctxLast, vpPool, vpLoad, callVars>>

\* compute_null_samples of the background routine writes result.null_samples,
\* sorted(null_scores) or [], on the record the suspended submission holds
NullSamplesSet(null_samples) ==
    /\ subLast.pc = "fetching"
    /\ subLast.precomputed # None
    /\ subLast.precomputed.null_samples = None
    /\ \A i \in 1..(Len(null_samples) - 1) : null_samples[i] <= null_samples[i + 1]
    /\ subLast' = [subLast EXCEPT !.precomputed.null_samples = [list |-> null_samples]]
    /\ UNCHANGED <<now, ecVars, nfVars, preVars, lexUnion, ctxLast, vpPool, vpLoad, callVars>>

SubmitNext ==
    \/ \E relevance \in Scores, precomputed \in PrecomputedInputs :
           GetRelevancePercentileCall(relevance, precomputed)
    \/ \E outcome \in FallbackOutcomes : GetRelevancePercentileReturn(outcome)
    \/ \E null_samples \in SeqsUpTo(Scores, MaxSamples) : NullSamplesSet(null_samples)

SpecSubmit == Init /\ [][SubmitNext]_vars

\* C14: the percentile of the precomputed path equals the percentile the
\* synchronous fallback computes for the same score and the same null samples.
C14_SamePercentile ==
    subLast.path = "precomputed"
    => PctEq(subLast.percentile,
             Calculate_relevance_percentile(subLast.relevance,
                 [kind |-> "ok", relevances |-> subLast.samples]))

(***************************************************************************)
(* Both caches on one clock: reads of one key over time.                   *)
(***************************************************************************)
ExpiryNext ==
    \/ \E text \in { <<"a">>, <<"A", " ">> } :
           GetEmbeddingCall(text) /\ UNCHANGED <<nfVars, preVars, extVars>>
    \/ \E i \in 1..MaxInflight : GetEmbeddingReturn(i) /\ UNCHANGED <<nfVars, preVars, extVars>>
    \/ \E seed \in { <<"a">>, <<"A", " ">> } :
           NfGet(seed, None, 20) /\ UNCHANGED <<ecVars, preVars, extVars>>
    \/ \E seed \in { <<"a">>, <<"A", " ">> } :
           NfPut(seed, [result |-> "r1"], None, 20) /\ UNCHANGED <<ecVars, preVars, extVars>>
    \/ EcTick

SpecExpiry == Init /\ [][ExpiryNext]_vars

\* the age at time t of the entry cached under key (the key is cached)
EntryAge(cache, key, t) == t - cache[IndexOf(cache, key)].ts

\* C15: a read of a key whose entry is older than the TTL deletes the entry,
\* counts as a miss and yields no cached value; a read of a key whose entry is
\* not older than the TTL keeps the entry and yields its value. In both caches.
C15_ExpiryOnRead ==
    [][ /\ \A text \in Texts :
               (IsGetEmbeddingCall(text) /\ HasKey(ecCache, EC_normalize_key(text)))
               => LET key == EC_normalize_key(text)
                  IN  IF EntryAge(ecCache, key, now) > TtlSeconds
                      THEN /\ ~HasKey(ecCache', key)
                           /\ ecMisses' = ecMisses + 1
                           /\ ecHits' = ecHits
                           /\ ~ecLast'.done
                           /\ ecLast'.results = <<None>>
                           /\ ecLast'.sent = << <<text>> >>
                      ELSE /\ HasKey(ecCache', key)
                           /\ ecHits' = ecHits + 1
                           /\ ecMisses' = ecMisses
                           /\ ecLast'.done
                           /\ ecLast'.results = <<ecCache[IndexOf(ecCache, key)].value>>
        /\ ( /\ nfOps' = nfOps + 1
             /\ nfLast'.op = "get"
             /\ HasKey(nfCache, nfLast'.key) )
               => IF EntryAge(nfCache, nfLast'.key, now) > TtlSeconds
                  THEN /\ ~HasKey(nfCache', nfLast'.key)
                       /\ nfMisses' = nfMisses + 1
                       /\ nfHits' = nfHits
                       /\ nfLast'.value = None
                  ELSE /\ HasKey(nfCache', nfLast'.key)
                       /\ nfHits' = nfHits + 1
                       /\ nfMisses' = nfMisses
                       /\ nfLast'.value = nfCache[IndexOf(nfCache, nfLast'.key)].value ]_vars

\* in each cache the one key was stored, read as a hit, and read again after the
\* TTL: the entry is gone and the read was a miss
C15_Witness ==
    /\ ecCache = <<>>
    /\ ecHits = 1
    /\ ecMisses = 2
    /\ ecPending # <<>>
    /\ nfCache = <<>>
    /\ nfHits = 1
    /\ nfMisses = 1
    /\ nfLast.op = "get"
    /\ nfLast.value = None

\* C16: a get_embeddings_batch whose texts hold one uncached normalized key more
\* than once sends that key's text to the provider only once, and the positions
\* of that key receive the same vector.
C16_BatchDeduplicates ==
    /\ ( /\ ecLast.op = "get_embeddings_batch"
         /\ ecLast.step = "call"
         /\ ecLast.sent # <<>> )
       => \A i, j \in 1..Len(ecLast.sent[1]) :
              EC_normalize_key(ecLast.sent[1][i]) = EC_normalize_key(ecLast.sent[1][j])
              => i = j
    /\ ( /\ ecLast.op = "get_embeddings_batch"
         /\ ecLast.done )
       => \A i, j \in 1..Len(ecLast.texts) :
              EC_normalize_key(ecLast.texts[i]) = EC_normalize_key(ecLast.texts[j])
              => ecLast.results[i] = ecLast.results[j]

(***************************************************************************)
(* Morphological variants (services/scoring_bridging.py)                   *)
(***************************************************************************)

\* str.startswith and str.endswith
StartsWith(word, prefix) ==
    Len(prefix) <= Len(word) /\ SubSeq(word, 1, Len(prefix)) = prefix

EndsWith(word, suffix) ==
    Len(suffix) <= Len(word)
    /\ SubSeq(word, Len(word) - Len(suffix) + 1, Len(word)) = suffix

\* the suffixes _get_word_stem strips, in its order
Suffixes ==
    << <<"i", "c", "a", "l", "l", "y">>,
       <<"a", "t", "i", "o", "n">>,
       <<"n", "e", "s", "s">>,
       <<"m", "e", "n", "t">>,
       <<"a", "b", "l", "e">>,
       <<"i", "b", "l", "e">>,
       <<"t", "i", "o", "n">>,
       <<"s", "i", "o", "n">>,
       <<"a", "l", "l", "y">>,
       <<"f", "u", "l">>,
       <<"l", "e", "s", "s">>,
       <<"i", "n", "g">>,
       <<"i", "t", "y">>,
       <<"o", "u", "s">>,
       <<"i", "v", "e">>,
       <<"e", "s", "t">>,
       <<"i", "e", "r">>,
       <<"i", "e", "s">>,
       <<"i", "e", "d">>,
       <<"l", "y">>,
       <<"e", "d">>,
       <<"e", "r">>,
       <<"e", "n">>,
       <<"e", "s">>,
       <<"s">> >>

\* the loop of _get_word_stem from suffix number i on
RECURSIVE StripFirstSuffix(_, _)
StripFirstSuffix(word, i) ==
    IF i > Len(Suffixes) THEN word
    ELSE IF EndsWith(word, Suffixes[i]) /\ Len(word) > Len(Suffixes[i]) + 2
         THEN SubSeq(word, 1, Len(word) - Len(Suffixes[i]))
         ELSE StripFirstSuffix(word, i + 1)

\* _get_word_stem(word)
Get_word_stem(word) == StripFirstSuffix(Lower(word), 1)

\* _is_morphological_variant(word1, word2)
Is_morphological_variant(word1, word2) ==
    LET w1 == Lower(word1)
        w2 == Lower(word2)
        d  == IF Len(w1) >= Len(w2) THEN Len(w1) - Len(w2) ELSE Len(w2) - Len(w1)
    IN  IF w1 = w2 THEN TRUE
        ELSE IF (StartsWith(w1, w2) \/ StartsWith(w2, w1)) /\ d <= 4 THEN TRUE
        ELSE Get_word_stem(w1) = Get_word_stem(w2)

W_mystery == <<"m", "y", "s", "t", "e", "r", "y">>
W_mysteries == <<"m", "y", "s", "t", "e", "r", "i", "e", "s">>
W_mysteriously == <<"m", "y", "s", "t", "e", "r", "i", "o", "u", "s", "l", "y">>
W_certainty == <<"c", "e", "r", "t", "a", "i", "n", "t", "y">>
W_uncertainty == <<"u", "n", "c", "e", "r", "t", "a", "i", "n", "t", "y">>
W_assurance == <<"a", "s", "s", "u", "r", "a", "n", "c", "e">>
W_catalyst == <<"c", "a", "t", "a", "l", "y", "s", "t">>
W_catalysts == <<"c", "a", "t", "a", "l", "y", "s", "t", "s">>
W_cat == <<"c", "a", "t">>
W_cats == <<"c", "a", "t", "s">>
W_Cat == <<"C", "a", "t">>
W_run == <<"r", "u", "n">>
W_running == <<"r", "u", "n", "n", "i", "n", "g">>
W_happy == <<"h", "a", "p", "p", "y">>
W_happiness == <<"h", "a", "p", "p", "i", "n", "e", "s", "s">>

\* the words given to the detector
VariantWords ==
    { W_mystery, W_mysteries, W_mysteriously, W_certainty, W_uncertainty,
      W_assurance, W_catalyst, W_catalysts, W_cat, W_cats, W_Cat, W_run, W_running,
      W_happy, W_happiness }

(***************************************************************************)
(* Part E.  find_lexical_union (services/scoring_bridging.py) and the      *)
(*          embedding functions it calls (services/embeddings.py)          *)
(***************************************************************************)

\* the anchor and target words of a game
UnionTexts == { <<"a">>, <<"b">> }

\* result.data of the get_noise_floor_by_embedding rpc, as its words
CandidateLists == { <<>>, << <<"a">> >>, << <<"c">>, <<"b">> >> }

\* embeddings.get_embeddings_batch(texts): openai_client.embeddings.create with
\* input=texts, whatever the EmbeddingCache holds
Direct_get_embeddings_batch(texts) == texts

\* scored_candidates after the sort: the positions of the candidates that are no
\* variant of the anchor or the target, by descending score, equal scores in
\* the order of the candidate list (list.sort is stable)
RECURSIVE ByScore(_, _)
ByScore(positions, scores) ==
    IF positions = {} THEN <<>>
    ELSE LET best == CHOOSE p \in positions :
                        \A q \in positions :
                            scores[p] > scores[q] \/ (scores[p] = scores[q] /\ p <= q)
         IN  <<best>> \o ByScore(positions \ {best}, scores)

Scored_candidates(anchor, target, candidate_words, scores) ==
    ByScore({ p \in 1..Len(candidate_words) :
                ~( \/ Is_morphological_variant(candidate_words[p], anchor)
                   \/ Is_morphological_variant(candidate_words[p], target) ) },
            scores)

\* any(_is_morphological_variant(word, used) for used in used_words)
IsVariantOfUsed(word, used_words) ==
    \E u \in 1..Len(used_words) : Is_morphological_variant(word, used_words[u])

\* the selection loop of find_lexical_union from scored candidate i on; union
\* holds the positions chosen so far
RECURSIVE SelectUnion(_, _, _, _, _, _)
SelectUnion(order, i, candidate_words, union, used_words, num_concepts) ==
    IF i > Len(order) THEN union
    ELSE LET word == candidate_words[order[i]]
         IN  IF IsVariantOfUsed(word, used_words)
             THEN SelectUnion(order, i + 1, candidate_words, union, used_words,
                              num_concepts)
             ELSE LET chosen == Append(union, order[i])
                  IN  IF Len(chosen) >= num_concepts THEN chosen
                      ELSE SelectUnion(order, i + 1, candidate_words, chosen,
                                       Append(used_words, Lower(word)), num_concepts)

\* find_lexical_union(anchor, target, num_concepts, supabase) up to its first
\* await: the embeddings of [anchor, target] are requested
FindLexicalUnionCall(anchor, target, num_concepts) ==
    /\ lexUnion.pc \in {"idle", "done"}
    /\ lexUnion' = [pc |-> "anchor_target",
                    sent |-> Direct_get_embeddings_batch(<<anchor, target>>),
                    anchor |-> anchor, target |-> target,
                    num_concepts |-> num_concepts,
                    candidates |-> <<>>, scores |-> <<>>, picked |-> <<>>,
                    words |-> <<>>]
    /\ UNCHANGED <<now, ecVars, nfVars, preVars, subLast, ctxLast, vpPool, vpLoad, callVars>>

\* the embeddings of anchor and target arrive and the rpc returns its rows: no
\* rows end the call with [], otherwise the candidates' embeddings are requested
FindLexicalUnionCandidates(candidate_words) ==
    /\ lexUnion.pc = "anchor_target"
    /\ lexUnion' = IF candidate_words = <<>>
                   THEN [lexUnion EXCEPT !.pc = "done", !.sent = <<>>]
                   ELSE [lexUnion EXCEPT !.pc = "candidates",
                                         !.sent = Direct_get_embeddings_batch(candidate_words),
                                         !.candidates = candidate_words]
    /\ UNCHANGED <<now, ecVars, nfVars, preVars, subLast, ctxLast, vpPool, vpLoad, callVars>>

\* the candidates' embeddings arrive; scores[p] is the combined score they give
\* candidate p. The candidates are filtered, sorted and selected, and the call
\* returns the chosen words.
FindLexicalUnionReturn(scores) ==
    /\ lexUnion.pc = "candidates"
    /\ LET order  == Scored_candidates(lexUnion.anchor, lexUnion.target,
                                       lexUnion.candidates, scores)
           picked == SelectUnion(order, 1, lexUnion.candidates, <<>>,
                                 <<Lower(lexUnion.anchor), Lower(lexUnion.target)>>,
                                 lexUnion.num_concepts)
       IN  lexUnion' = [lexUnion EXCEPT
                           !.pc = "done", !.sent = <<>>, !.scores = scores,
                           !.picked = picked,
                           !.words = [i \in 1..Len(picked) |-> lexUnion.candidates[picked[i]]]]
    /\ UNCHANGED <<now, ecVars, nfVars, preVars, subLast, ctxLast, vpPool, vpLoad, callVars>>

\* the provider or the rpc raises: find_lexical_union raises
FindLexicalUnionRaises ==
    /\ lexUnion.pc \in {"anchor_target", "candidates"}
    /\ lexUnion' = [lexUnion EXCEPT !.pc = "idle", !.sent = <<>>]
    /\ UNCHANGED <<now, ecVars, nfVars, preVars, subLast, ctxLast, vpPool, vpLoad, callVars>>

\* A game's anchor and target embedded through the cache (embed_anchor_target,
\* the submission's scoring) while find_lexical_union runs for the same game.
UnionNext ==
    \/ \E a \in UnionTexts, t \in UnionTexts :
           GetEmbeddingsBatchCall(<<a, t>>) /\ UNCHANGED <<nfVars, preVars, extVars>>
    \/ \E i \in 1..MaxInflight :
           GetEmbeddingsBatchReturn(i) /\ UNCHANGED <<nfVars, preVars, extVars>>
    \/ \E a \in UnionTexts, t \in UnionTexts : FindLexicalUnionCall(a, t, MaxConcepts)
    \/ \E c \in CandidateLists : FindLexicalUnionCandidates(c)
    \/ \E scores \in [1..Len(lexUnion.candidates) -> 0..1] : FindLexicalUnionReturn(scores)
    \/ FindLexicalUnionRaises
    \/ EcTick

SpecUnion == Init /\ [][UnionNext]_vars

\* C17: no text with a live cache entry is sent to the embedding provider,
\* neither by the EmbeddingCache nor by find_lexical_union.
C17_NoLiveTextSent ==
    [][ /\ ( /\ ecOps' = ecOps + 1
             /\ ecLast'.op = "get_embeddings_batch"
             /\ ecLast'.step = "call"
             /\ ecLast'.sent # <<>> )
               => \A i \in 1..Len(ecLast'.sent[1]) :
                      EC_normalize_key(ecLast'.sent[1][i]) \notin LiveKeys(ecCache, now)
        /\ ( /\ lexUnion' # lexUnion
             /\ lexUnion'.pc \in {"anchor_target", "candidates"} )
               => \A i \in 1..Len(lexUnion'.sent) :
                      EC_normalize_key(lexUnion'.sent[i]) \notin LiveKeys(ecCache, now) ]_vars

(***************************************************************************)
(* EmbeddingCache.get_contextual_embedding                                 *)
(***************************************************************************)

\* get_contextual_embedding(word, context): the text is built and handed to
\* get_embedding
GetContextualEmbedding(word, context) ==
    /\ GetEmbeddingCall(ContextualText(word, context))
    /\ ctxLast' = [calls |-> IF ctxLast.calls < 2 THEN ctxLast.calls + 1 ELSE 2,
                   word |-> word, context |-> context,
                   text |-> ContextualText(word, context),
                   prev |-> [word |-> ctxLast.word, context |-> ctxLast.context,
                             text |-> ctxLast.text]]
    /\ UNCHANGED <<nfVars, preVars, subLast, lexUnion, vpPool, vpLoad, callVars>>

ContextNext ==
    \/ \E w \in CtxWords, c \in Contexts : GetContextualEmbedding(w, c)
    \/ \E i \in 1..MaxInflight : GetEmbeddingReturn(i) /\ UNCHANGED <<nfVars, preVars, extVars>>

SpecContext == Init /\ [][ContextNext]_vars

\* C18: two get_contextual_embedding calls for one word use different
\* cache keys whenever their context lists differ, and an empty context uses the
\* key of get_embedding(word).
C18_ContextKeys ==
    /\ ( /\ ctxLast.calls = 2
         /\ ctxLast.word = ctxLast.prev.word
         /\ ctxLast.context # ctxLast.prev.context )
       => EC_normalize_key(ctxLast.text) # EC_normalize_key(ctxLast.prev.text)
    /\ (ctxLast.calls >= 1 /\ ctxLast.context = <<>>)
       => EC_normalize_key(ctxLast.text) = EC_normalize_key(ctxLast.word)

(***************************************************************************)
(* Both caches used side by side: the capacity bound.                      *)
(***************************************************************************)

\* the operations the two caches are given together
MaxCapacityOps == 6

CapacityBatches == { << <<"a">>, <<"b">> >>, << <<"b">>, <<"c">> >>, << <<"c">>, <<"c">> >> }

CapacitySeeds == { <<"a">>, <<"b">> }

CapacityContexts == { None, [list |-> <<"x", "y">>] }

CapacityNext ==
    \/ \E text \in { <<"a">>, <<"b">>, <<"c">> } :
          /\ ecOps + nfOps < MaxCapacityOps
          /\ GetEmbeddingCall(text) /\ UNCHANGED <<nfVars, preVars, extVars>>
    \/ \E i \in 1..MaxInflight : GetEmbeddingReturn(i) /\ UNCHANGED <<nfVars, preVars, extVars>>
    \/ \E texts \in CapacityBatches :
          /\ ecOps + nfOps < MaxCapacityOps
          /\ GetEmbeddingsBatchCall(texts) /\ UNCHANGED <<nfVars, preVars, extVars>>
    \/ \E i \in 1..MaxInflight : GetEmbeddingsBatchReturn(i) /\ UNCHANGED <<nfVars, preVars, extVars>>
    \/ /\ ecOps + nfOps < MaxCapacityOps
       /\ EcClear /\ UNCHANGED <<nfVars, preVars, extVars>>
    \/ \E seed \in CapacitySeeds, ctx \in CapacityContexts :
          /\ ecOps + nfOps < MaxCapacityOps
          /\ NfGet(seed, ctx, 20) /\ UNCHANGED <<ecVars, preVars, extVars>>
    \/ \E seed \in CapacitySeeds, ctx \in CapacityContexts :
          /\ ecOps + nfOps < MaxCapacityOps
          /\ NfPut(seed, [result |-> "r1"], ctx, 20) /\ UNCHANGED <<ecVars, preVars, extVars>>
    \/ /\ ecOps + nfOps < MaxCapacityOps
       /\ NfClear /\ UNCHANGED <<ecVars, preVars, extVars>>

SpecCapacity == Init /\ [][CapacityNext]_vars

\* C19: whatever gets, puts, batch gets and clears the two caches have served,
\* interleaved in any order, neither holds more entries than its max_size.
C19_AtMostMaxSize ==
    /\ Len(ecCache) <= MaxSize
    /\ Len(nfCache) <= NfMaxSize

\* both caches are full, each having evicted an entry in its last store
C19_Witness ==
    /\ Len(ecCache) = MaxSize
    /\ ecLast.evicted # <<>>
    /\ Len(nfCache) = NfMaxSize
    /\ nfLast.op = "put"
    /\ nfLast.evicted # <<>>

\* the normalized keys a suspended call has asked the provider for
PendingKeys(p) == { p.missed[j].key : j \in 1..Len(p.missed) }

\* C35: at most one provider request is in flight for a normalized key: no two
\* suspended get_embedding / get_embeddings_batch calls wait for the same key.
C35_OneRequestPerKey ==
    \A i, j \in 1..Len(ecPending) :
        i # j => PendingKeys(ecPending[i]) \cap PendingKeys(ecPending[j]) = {}

\* C36: storing a key that is already present in a full EmbeddingCache or
\* NoiseFloorCache evicts no other entry and leaves the number of entries
\* unchanged.
C36_RePutEvictsNothing ==
    [][ /\ ( /\ nfOps' = nfOps + 1
             /\ nfLast'.op = "put"
             /\ HasKey(nfCache, nfLast'.key)
             /\ Len(nfCache) = NfMaxSize )
            => /\ KeysOf(nfCache') = KeysOf(nfCache)
               /\ Len(nfCache') = Len(nfCache)
        /\ ( /\ Len(ecPending') = Len(ecPending) - 1
             /\ ecLast'.op = "get_embedding"
             /\ ecLast'.step = "return"
             /\ HasKey(ecCache, ecLast'.puts[1][1])
             /\ Len(ecCache) = MaxSize )
            => /\ KeysOf(ecCache') = KeysOf(ecCache)
               /\ Len(ecCache') = Len(ecCache) ]_vars

(***************************************************************************)
(* VocabularyPool.initialize (services/cache/vocabulary_pool.py)           *)
(***************************************************************************)

\* batch_size, the rows of one page
VpBatchSize == 2

\* the rows the vocabulary store holds at most, and the initialize calls made
MaxRows == 3
MaxLoads == 3

VpWords == { "w1", "w2" }

\* the embedding column of a row
VpEmbedding(word) == [of |-> word]

\* Variant of VpPageData whose range ends one row later
VpPageData_Inclusive(store, offset) ==
    SubSeq(store, offset + 1, IF offset + VpBatchSize + 1 <= Len(store)
                              THEN offset + VpBatchSize + 1 ELSE Len(store))

\* .range(offset, offset + batch_size - 1).execute(): the rows of one page
VpPageData(store, offset) ==
    SubSeq(store, offset + 1, IF offset + VpBatchSize <= Len(store)
                              THEN offset + VpBatchSize ELSE Len(store))

\* with self._pool_lock: the finished load replaces the pool
VpCommit(pool, all_words, all_embeddings, load_embeddings, t) ==
    [words |-> all_words,
     pairs |-> IF load_embeddings THEN all_embeddings ELSE pool.pairs,
     initialized |-> TRUE,
     last_refresh |-> t]

\* except Exception: self._initialized = True; self._words = []
VpFailed(pool) == [pool EXCEPT !.initialized = TRUE, !.words = <<>>]

\* initialize(supabase_client, load_embeddings) starts: nothing fetched yet
VpInitializeCall(store, load_embeddings) ==
    /\ vpLoad.pc = "idle"
    /\ vpLoad.calls < MaxLoads
    /\ vpLoad' = [pc |-> "fetch", calls |-> vpLoad.calls + 1, outcome |-> "none",
                  store |-> store, load_embeddings |-> load_embeddings,
                  all_words |-> <<>>, all_embeddings |-> <<>>, offset |-> 0, pages |-> 0]
    /\ UNCHANGED <<now, ecVars, nfVars, preVars, subLast, lexUnion, ctxLast, vpPool, callVars>>

\* one turn of the while loop: the store answers with a page
VpPage ==
    /\ vpLoad.pc = "fetch"
    /\ LET data     == VpPageData(vpLoad.store, vpLoad.offset)
           words    == vpLoad.all_words \o data
           pairs    == IF vpLoad.load_embeddings
                       THEN vpLoad.all_embeddings \o
                            [i \in 1..Len(data) |-> <<data[i], VpEmbedding(data[i])>>]
                       ELSE vpLoad.all_embeddings
           finished == data = <<>> \/ Len(data) < VpBatchSize
       IN  IF finished
           THEN /\ vpPool' = VpCommit(vpPool, words, pairs, vpLoad.load_embeddings, now)
                /\ vpLoad' = [vpLoad EXCEPT !.pc = "idle", !.outcome = "loaded",
                                            !.all_words = words, !.all_embeddings = pairs,
                                            !.pages = @ + 1]
           ELSE /\ vpLoad' = [vpLoad EXCEPT !.all_words = words, !.all_embeddings = pairs,
                                            !.offset = @ + VpBatchSize, !.pages = @ + 1]
                /\ UNCHANGED vpPool
    /\ UNCHANGED <<now, ecVars, nfVars, preVars, subLast, lexUnion, ctxLast, callVars>>

\* one turn of the while loop: the store raises
VpPageRaises ==
    /\ vpLoad.pc = "fetch"
    /\ vpPool' = VpFailed(vpPool)
    /\ vpLoad' = [vpLoad EXCEPT !.pc = "idle", !.outcome = "failed", !.pages = @ + 1]
    /\ UNCHANGED <<now, ecVars, nfVars, preVars, subLast, lexUnion, ctxLast, callVars>>

PoolNext ==
    \/ \E store \in SeqsUpTo(VpWords, MaxRows), load_embeddings \in BOOLEAN :
          VpInitializeCall(store, load_embeddings)
    \/ VpPage
    \/ VpPageRaises
    \/ EcTick

SpecPool == Init /\ [][PoolNext]_vars

\* the store answers every page request
FairSpecPool == Init /\ [][PoolNext]_vars /\ WF_vars(VpPage)

\* C20: when the vocabulary store raises at a page of initialize, on a first
\* load or on a reload, the pool ends initialized and empty: no words and no
\* word-embedding pairs.
C20_FailedLoadLeavesEmptyPool ==
    (vpLoad.pc = "idle" /\ vpLoad.outcome = "failed")
        => /\ vpPool.initialized
           /\ vpPool.words = <<>>
           /\ vpPool.pairs = <<>>

\* DEFAULT_VOCABULARY_SIZE, the configured size of the pool
DEFAULT_VOCABULARY_SIZE == 2

\* C21: after initialize the pool never holds more words than
\* DEFAULT_VOCABULARY_SIZE, even when the store holds more rows.
C21_LoadStopsAtSizeCap ==
    (vpLoad.pc = "idle" /\ vpLoad.outcome = "loaded")
        => Len(vpPool.words) <= DEFAULT_VOCABULARY_SIZE

\* the word-embedding pairs of the rows of a store
VpPairsOf(store) == [i \in 1..Len(store) |-> <<store[i], VpEmbedding(store[i])>>]

\* C33: initialize terminates, and when the store raises no error the pool holds
\* the store's rows, each once and in store order, after Len(store) \div
\* batch_size + 1 pages: one extra, empty page for the empty store and for a
\* store of an exact multiple of the page size.
C33_InitializeLoadsEveryRowOnce ==
    /\ [] ( (vpLoad.pc = "idle" /\ vpLoad.outcome = "loaded")
              => /\ vpPool.words = vpLoad.store
                 /\ vpLoad.load_embeddings => vpPool.pairs = VpPairsOf(vpLoad.store)
                 /\ vpLoad.pages = (Len(vpLoad.store) \div VpBatchSize) + 1 )
    /\ (vpLoad.pc = "fetch") ~> (vpLoad.pc = "idle")

\* a store of exactly one full page was loaded in two pages, the second empty
C33_Witness ==
    /\ vpLoad.pc = "idle"
    /\ vpLoad.outcome = "loaded"
    /\ Len(vpLoad.store) = VpBatchSize
    /\ vpLoad.pages = 2
    /\ vpLoad.load_embeddings
    /\ vpPool.words = vpLoad.store

\* C39: whatever initialize calls were made, every word of the word-embedding
\* list is in the word list, and after a load both lists hold the rows of that
\* load.
C39_ListsFromSameLoad ==
    /\ \A i \in 1..Len(vpPool.pairs) :
           \E j \in 1..Len(vpPool.words) : vpPool.words[j] = vpPool.pairs[i][1]
    /\ (vpLoad.pc = "idle" /\ vpLoad.outcome = "loaded" /\ vpPool.pairs # <<>>)
           => vpPool.pairs = VpPairsOf(vpPool.words)

(***************************************************************************)
(* VocabularyPool.get_random and get_random_batch                          *)
(***************************************************************************)

\* the largest count asked of get_random_batch
MaxCount == 4

\* Variant of SamplePositions that may take a position twice
SamplePositions_Repeats(n, k) == [1..k -> 1..n]

\* random.sample(population, k): k distinct positions, in any order
SamplePositions(n, k) ==
    { s \in [1..k -> 1..n] : \A i, j \in 1..k : i # j => s[i] # s[j] }

\* [random.choice(population) for _ in range(k)]: k positions, repeats allowed
ChoicePositions(n, k) == [1..k -> 1..n]

\* sample_size = min(count, len(self._words))
SampleSize(count, size) == IF count <= size THEN count ELSE size

\* VocabularyPool.get_random()
GetRandom ==
    /\ IF vpPool.words = <<>>
       THEN vpLast' = [op |-> "get_random", value |-> None]
       ELSE \E i \in 1..Len(vpPool.words) :
               vpLast' = [op |-> "get_random", position |-> i,
                          value |-> [word |-> vpPool.words[i]]]
    /\ UNCHANGED <<now, ecVars, nfVars, preVars, subLast, lexUnion, ctxLast,
                   vpPool, vpLoad, stats, stLast, scLast, lockVars>>

\* VocabularyPool.get_random_batch(count, allow_duplicates)
GetRandomBatch(count, allow_duplicates) ==
    /\ LET size == Len(vpPool.words)
       IN  IF vpPool.words = <<>>
           THEN vpLast' = [op |-> "get_random_batch", count |-> count,
                           allow_duplicates |-> allow_duplicates, size |-> size,
                           positions |-> <<>>, value |-> <<>>]
           ELSE \E pos \in IF allow_duplicates
                           THEN ChoicePositions(size, count)
                           ELSE SamplePositions(size, SampleSize(count, size)) :
                   vpLast' = [op |-> "get_random_batch", count |-> count,
                              allow_duplicates |-> allow_duplicates, size |-> size,
                              positions |-> pos,
                              value |-> [i \in 1..Len(pos) |-> vpPool.words[pos[i]]]]
    /\ UNCHANGED <<now, ecVars, nfVars, preVars, subLast, lexUnion, ctxLast,
                   vpPool, vpLoad, stats, stLast, scLast, lockVars>>

\* the vocabulary stores the sampled pool is loaded from
SampleStores == { <<>>, <<"w1", "w2">>, <<"w1", "w1", "w2">> }

SampleNext ==
    \/ \E store \in SampleStores : VpInitializeCall(store, FALSE)
    \/ VpPage
    \/ VpPageRaises
    \/ GetRandom
    \/ \E count \in 0..MaxCount, allow_duplicates \in BOOLEAN :
          GetRandomBatch(count, allow_duplicates)

SpecSample == Init /\ [][SampleNext]_vars

\* C22: get_random_batch without duplicates returns min(count, pool size) words
\* from distinct pool positions; with duplicates it returns count words from a
\* non-empty pool; both return the empty list on an empty pool, and get_random
\* returns None on an empty pool.
C22_BatchSizes ==
    [][ /\ (\E count \in 0..MaxCount : GetRandomBatch(count, FALSE)) =>
            /\ Len(vpLast'.value) = IF vpLast'.count <= Len(vpPool.words)
                                    THEN vpLast'.count ELSE Len(vpPool.words)
            /\ Len(vpLast'.value) <= vpLast'.count
            /\ \A i, j \in 1..Len(vpLast'.value) :
                   i # j => vpLast'.positions[i] # vpLast'.positions[j]
            /\ \A i \in 1..Len(vpLast'.value) :
                   /\ vpLast'.positions[i] \in 1..Len(vpPool.words)
                   /\ vpLast'.value[i] = vpPool.words[vpLast'.positions[i]]
        /\ (\E count \in 0..MaxCount : GetRandomBatch(count, TRUE)) =>
            /\ vpPool.words # <<>> => Len(vpLast'.value) = vpLast'.count
            /\ vpPool.words = <<>> => vpLast'.value = <<>>
            /\ \A i \in 1..Len(vpLast'.value) : \E k \in 1..Len(vpPool.words) :
                   vpLast'.value[i] = vpPool.words[k]
        /\ GetRandom =>
            /\ vpPool.words = <<>> => vpLast'.value = None
            /\ vpPool.words # <<>> =>
                   \E k \in 1..Len(vpPool.words) :
                       vpLast'.value = [word |-> vpPool.words[k]]
      ]_vars

\* a pool of three words was asked for four without duplicates and gave three
C22_Witness ==
    /\ vpLast.op = "get_random_batch"
    /\ ~vpLast.allow_duplicates
    /\ vpLast.count = 4
    /\ Len(vpPool.words) = 3
    /\ Len(vpLast.value) = 3

(***************************************************************************)
(* NoiseFloorCache keys: get after put                                     *)
(***************************************************************************)

KeySeeds == { <<"a">>, <<"A", " ">> }

KeyContexts ==
    { None, [list |-> <<>>], [list |-> <<"x">>],
      [list |-> <<"x", "y">>], [list |-> <<"y", "x">>] }

KeyKs == { 10, 20 }

\* the gets and puts made on the cache
MaxKeyOps == 3

KeysNext ==
    \/ \E seed \in KeySeeds, ctx \in KeyContexts, k \in KeyKs :
          /\ nfOps < MaxKeyOps
          /\ NfGet(seed, ctx, k) /\ UNCHANGED <<ecVars, preVars, extVars>>
    \/ \E seed \in KeySeeds, ctx \in KeyContexts, k \in KeyKs :
          /\ nfOps < MaxKeyOps
          /\ NfPut(seed, [result |-> "r1"], ctx, k) /\ UNCHANGED <<ecVars, preVars, extVars>>
    \/ NfTick

SpecKeys == Init /\ [][KeysNext]_vars

\* the words of a context, None being the empty context
ContextWords(sense_context) ==
    IF sense_context = None THEN <<>> ELSE sense_context.list

\* the set of the words of a list
WordSet(list) == { list[i] : i \in 1..Len(list) }

\* list b is list a in another order
IsPermutation(a, b) ==
    /\ Len(a) = Len(b)
    /\ \E f \in [1..Len(a) -> 1..Len(a)] :
          /\ \A i, j \in 1..Len(a) : i # j => f[i] # f[j]
          /\ \A i \in 1..Len(a) : a[i] = b[f[i]]

\* C23: a get that follows put(seed2, result, ctx2, k2) returns result, as a hit,
\* whenever the seeds are equal after lowercase and trim, the contexts are
\* permutations of each other (None being the empty list), the k are equal and the
\* entry is neither expired nor evicted; with another k or another set of context
\* words it does not use the entry of the put, and misses when that was the only
\* candidate.
C23_NormalizedKeyHits ==
    [][ \A seed \in KeySeeds, ctx \in KeyContexts, k \in KeyKs :
          (NfGet(seed, ctx, k) /\ nfLast.op = "put") =>
            \A seed2 \in KeySeeds, ctx2 \in KeyContexts, k2 \in KeyKs :
              NF_make_key(seed2, ctx2, k2) = nfLast.key =>
                /\ ( /\ Strip(Lower(seed)) = Strip(Lower(seed2))
                     /\ IsPermutation(ContextWords(ctx), ContextWords(ctx2))
                     /\ k = k2
                     /\ HasKey(nfCache, nfLast.key)
                     /\ ~NF_is_expired(nfCache[IndexOf(nfCache, nfLast.key)].ts, now) )
                   => /\ nfLast'.value = nfLast.value
                      /\ nfHits' = nfHits + 1
                      /\ nfMisses' = nfMisses
                /\ ( \/ k # k2
                     \/ WordSet(ContextWords(ctx)) # WordSet(ContextWords(ctx2)) )
                   => /\ nfLast'.key # nfLast.key
                      /\ ~HasKey(nfCache, nfLast'.key) =>
                            /\ nfLast'.value = None
                            /\ nfMisses' = nfMisses + 1
                            /\ nfHits' = nfHits
      ]_vars

\* put("a", r1, [x, y], 20) was answered by get("A ", [y, x], 20): a hit
C23_Witness ==
    /\ nfLast.op = "get"
    /\ nfLast.key = NF_make_key(<<"A", " ">>, [list |-> <<"y", "x">>], 20)
    /\ nfLast.value = [result |-> "r1"]
    /\ nfHits = 1
    /\ nfMisses = 0
    /\ nfOps = 2

(***************************************************************************)
(* StatsCache (services/cache/stats_cache.py)                              *)
(***************************************************************************)

\* NUM_BOOTSTRAP_SAMPLES, the samples of one distribution
NUM_BOOTSTRAP_SAMPLES == 2

\* the initialize calls made on the cache
MaxStatLoads == 2

\* clue_counts given to initialize
ClueCountLists == { <<1>>, <<1, 2>> }

RECURSIVE InsertScore(_, _)
InsertScore(sorted, x) ==
    IF sorted = <<>> THEN <<x>>
    ELSE IF x < Head(sorted) THEN <<x>> \o sorted
    ELSE <<Head(sorted)>> \o InsertScore(Tail(sorted), x)

\* np.sort(relevance_scores)
RECURSIVE NpSort(_)
NpSort(list) ==
    IF list = <<>> THEN <<>>
    ELSE InsertScore(NpSort(SubSeq(list, 1, Len(list) - 1)), list[Len(list)])

\* Variant of SearchSorted that bisects to the right of equal samples
RECURSIVE SearchSorted_Right(_, _, _, _)
SearchSorted_Right(a, v, lo, hi) ==
    IF lo < hi
    THEN LET mid == (lo + hi) \div 2
         IN  IF a[mid + 1] <= v THEN SearchSorted_Right(a, v, mid + 1, hi)
             ELSE SearchSorted_Right(a, v, lo, mid)
    ELSE lo

\* np.searchsorted(a, v), side 'left': a bisection over the positions lo..hi
RECURSIVE SearchSorted(_, _, _, _)
SearchSorted(a, v, lo, hi) ==
    IF lo < hi
    THEN LET mid == (lo + hi) \div 2
         IN  IF a[mid + 1] < v THEN SearchSorted(a, v, mid + 1, hi)
             ELSE SearchSorted(a, v, lo, mid)
    ELSE lo

\* StatsCache.get_relevance_percentile on the distributions `dists`
Stats_relevance_percentile(dists, relevance_score, num_clues) ==
    LET distribution == dists[num_clues]
    IN  IF distribution = None THEN Pct(50, 1)
        ELSE LET idx == SearchSorted(distribution.list, relevance_score, 0,
                                     Len(distribution.list))
                 percentile == Pct(idx * 100, Len(distribution.list))
             IN  PctMin(Pct(999, 10), PctMax(Pct(1, 10), percentile))

\* StatsCache.initialize(vocabulary_pool, clue_counts): `enough` says whether the
\* pool gave at least 100 word-embedding pairs, `drawn` holds the relevance
\* scores of the bootstrap of each clue count
StatsInitialize(enough, clue_counts, drawn) ==
    /\ stats.loads < MaxStatLoads
    /\ stats' =
          IF ~enough
          THEN [stats EXCEPT !.initialized = TRUE, !.loads = @ + 1]
          ELSE [dists |-> [n \in 1..MaxClues |->
                              IF \E i \in 1..Len(clue_counts) : clue_counts[i] = n
                              THEN [list |-> NpSort(drawn[CHOOSE i \in 1..Len(clue_counts) :
                                                                 clue_counts[i] = n])]
                              ELSE stats.dists[n]],
                initialized |-> TRUE,
                loads |-> stats.loads + 1]
    /\ UNCHANGED <<now, ecVars, nfVars, preVars, subLast, lexUnion, ctxLast,
                   vpPool, vpLoad, vpLast, stLast, scLast, lockVars>>

\* StatsCache.get_relevance_percentile(relevance_score, num_clues)
StatsGetRelevancePercentile(relevance_score, num_clues) ==
    /\ stLast' = [op |-> "get_relevance_percentile", score |-> relevance_score,
                  n |-> num_clues,
                  value |-> Stats_relevance_percentile(stats.dists, relevance_score,
                                                       num_clues)]
    /\ UNCHANGED <<now, ecVars, nfVars, preVars, subLast, lexUnion, ctxLast,
                   vpPool, vpLoad, vpLast, stats, scLast, lockVars>>

\* StatsCache.clear(): no distribution is left and the cache is uninitialized
StatsClear ==
    /\ stats' = [dists |-> [n \in 1..MaxClues |-> None],
                 initialized |-> FALSE,
                 loads |-> stats.loads]
    /\ UNCHANGED <<now, ecVars, nfVars, preVars, subLast, lexUnion, ctxLast,
                   vpPool, vpLoad, vpLast, stLast, scLast, lockVars>>

StatsNext ==
    \/ \E clue_counts \in ClueCountLists : StatsInitialize(FALSE, clue_counts, <<>>)
    \/ \E clue_counts \in ClueCountLists :
          \E drawn \in [1..Len(clue_counts) -> [1..NUM_BOOTSTRAP_SAMPLES -> Scores]] :
              StatsInitialize(TRUE, clue_counts, drawn)
    \/ \E relevance_score \in Scores, num_clues \in 1..MaxClues :
          StatsGetRelevancePercentile(relevance_score, num_clues)
    \/ StatsClear

SpecStats == Init /\ [][StatsNext]_vars

\* C24: get_relevance_percentile(score, n) lies in [0.1, 99.9] and does not
\* decrease when the score grows; with a distribution built for n it is 100
\* times the fraction of its samples strictly less than the score, clamped to
\* that range; with no distribution for n it is exactly 50.
C24_PercentileOfScore ==
    [][ \A score \in Scores, n \in 1..MaxClues :
          StatsGetRelevancePercentile(score, n) =>
            LET value == stLast'.value
                dist  == stats.dists[n]
            IN  /\ ~PctLess(value, Pct(1, 10)) /\ ~PctLess(Pct(999, 10), value)
                /\ \A lower \in Scores :
                      lower <= score =>
                        ~PctLess(value, Stats_relevance_percentile(stats.dists, lower, n))
                /\ dist = None => (value.num = 50 /\ value.den = 1)
                /\ dist # None =>
                      LET below == Cardinality({ i \in 1..Len(dist.list) :
                                                   dist.list[i] < score })
                          fraction == Pct(100 * below, Len(dist.list))
                      IN  PctEq(value,
                                IF PctLess(fraction, Pct(1, 10)) THEN Pct(1, 10)
                                ELSE IF PctLess(Pct(999, 10), fraction) THEN Pct(999, 10)
                                ELSE fraction)
      ]_vars

\* a distribution for one clue holds the asked score and a lower one: half of
\* its samples are below
C24_Witness ==
    /\ stLast.op = "get_relevance_percentile"
    /\ stLast.n = 1
    /\ stats.dists[1] # None
    /\ stats.dists[1].list = <<1, 2>>
    /\ stLast.score = 2
    /\ PctEq(stLast.value, Pct(50, 1))
    /\ stats.dists[3] = None

(***************************************************************************)
(* Part F.  The scoring engine (services/scoring.py)                       *)
(***************************************************************************)

\* the null distributions given to normalize_scores: samples, mean and std of
\* relevance and of divergence
NullDistributions ==
    { [relevance_samples |-> rs, divergence_samples |-> ds,
       relevance_mean |-> 1, relevance_std |-> sd,
       divergence_mean |-> 1, divergence_std |-> sd] :
         rs \in SeqsUpTo(Scores, MaxSamples), ds \in SeqsUpTo(Scores, MaxSamples),
         sd \in { 0, 2 } }

NormalizeMethods == { "percentile", "zscore", "rank" }

\* normalize_scores(participant_scores, null_distribution, method); an unknown
\* method raises ValueError
Normalize_scores(participant_scores, null_distribution, method) ==
    LET rel_raw == participant_scores.relevance
        div_raw == participant_scores.divergence
    IN  IF method = "percentile"
        THEN [raised |-> FALSE,
              relevance_normalized |->
                  IF null_distribution.relevance_samples # <<>>
                  THEN Mean100(rel_raw, null_distribution.relevance_samples)
                  ELSE Pct(50, 1),
              divergence_normalized |->
                  IF null_distribution.divergence_samples # <<>>
                  THEN Mean100(div_raw, null_distribution.divergence_samples)
                  ELSE Pct(50, 1),
              relevance_raw |-> rel_raw,
              divergence_raw |-> div_raw]
        ELSE IF method = "zscore"
        THEN [raised |-> FALSE,
              relevance_normalized |->
                  IF null_distribution.relevance_std > 0
                  THEN Pct(rel_raw - null_distribution.relevance_mean,
                           null_distribution.relevance_std)
                  ELSE Pct(0, 1),
              divergence_normalized |->
                  IF null_distribution.divergence_std > 0
                  THEN Pct(div_raw - null_distribution.divergence_mean,
                           null_distribution.divergence_std)
                  ELSE Pct(0, 1),
              relevance_raw |-> rel_raw,
              divergence_raw |-> div_raw]
        ELSE [raised |-> TRUE]

NormalizeScores(participant_scores, null_distribution, method) ==
    /\ scLast' = [fn |-> "normalize_scores", scores |-> participant_scores,
                  null |-> null_distribution, method |-> method,
                  value |-> Normalize_scores(participant_scores, null_distribution,
                                             method)]
    /\ UNCHANGED <<now, ecVars, nfVars, preVars, subLast, lexUnion, ctxLast,
                   vpPool, vpLoad, vpLast, stats, stLast, lockVars>>

\* one call, on any input
NormalizeNext ==
    /\ scLast.fn = "none"
    /\ \E relevance \in Scores, divergence \in Scores,
          null_distribution \in NullDistributions,
          method \in NormalizeMethods :
           NormalizeScores([relevance |-> relevance, divergence |-> divergence],
                           null_distribution, method)

SpecNormalize == Init /\ [][NormalizeNext]_vars

\* 100 times the fraction of the samples strictly below the score, kept
\* within [0.1, 99.9]
ClampedFraction(score, samples) ==
    LET fraction == Pct(100 * Cardinality({ i \in 1..Len(samples) : samples[i] < score }),
                        Len(samples))
    IN  IF PctLess(fraction, Pct(1, 10)) THEN Pct(1, 10)
        ELSE IF PctLess(Pct(999, 10), fraction) THEN Pct(999, 10)
        ELSE fraction

\* C25: with method 'percentile' and a non-empty sample list, the normalized
\* value is 100 times the fraction of samples strictly less than the score,
\* clamped to [0.1, 99.9]: never 0 and never 100.
C25_NormalizedPercentileClamped ==
    (scLast.fn = "normalize_scores" /\ scLast.method = "percentile") =>
        /\ scLast.null.relevance_samples # <<>> =>
              /\ PctEq(scLast.value.relevance_normalized,
                       ClampedFraction(scLast.scores.relevance,
                                       scLast.null.relevance_samples))
              /\ ~PctEq(scLast.value.relevance_normalized, Pct(0, 1))
              /\ ~PctEq(scLast.value.relevance_normalized, Pct(100, 1))
        /\ scLast.null.divergence_samples # <<>> =>
              /\ PctEq(scLast.value.divergence_normalized,
                       ClampedFraction(scLast.scores.divergence,
                                       scLast.null.divergence_samples))
              /\ ~PctEq(scLast.value.divergence_normalized, Pct(0, 1))
              /\ ~PctEq(scLast.value.divergence_normalized, Pct(100, 1))

\* the score dictionaries given to compare_submissions; the valid field may be
\* missing
Submissions ==
    { [relevance |-> r, divergence |-> d, has_valid |-> h, valid |-> v] :
        r \in 0..1, d \in Scores, h \in BOOLEAN, v \in BOOLEAN }

\* scores.get("valid", False)
GetValid(scores) == IF scores.has_valid THEN scores.valid ELSE FALSE

\* Variant of Compare_submissions that counts an equal divergence as more creative
Compare_submissions_AtLeast(participant_scores, baseline_scores) ==
    LET rel_delta  == participant_scores.relevance - baseline_scores.relevance
        div_delta  == participant_scores.divergence - baseline_scores.divergence
        both_valid == GetValid(participant_scores) /\ GetValid(baseline_scores)
    IN  [relevance_delta |-> rel_delta, divergence_delta |-> div_delta,
         more_creative |-> both_valid /\ div_delta >= 0]

\* compare_submissions(participant_scores, baseline_scores)
Compare_submissions(participant_scores, baseline_scores) ==
    LET rel_delta  == participant_scores.relevance - baseline_scores.relevance
        div_delta  == participant_scores.divergence - baseline_scores.divergence
        both_valid == GetValid(participant_scores) /\ GetValid(baseline_scores)
    IN  [relevance_delta |-> rel_delta, divergence_delta |-> div_delta,
         more_creative |-> both_valid /\ div_delta > 0]

CompareSubmissions(participant_scores, baseline_scores) ==
    /\ scLast' = [fn |-> "compare_submissions", participant |-> participant_scores,
                  baseline |-> baseline_scores,
                  value |-> Compare_submissions(participant_scores, baseline_scores)]
    /\ UNCHANGED <<now, ecVars, nfVars, preVars, subLast, lexUnion, ctxLast,
                   vpPool, vpLoad, vpLast, stats, stLast, lockVars>>

\* one call, on any input
CompareNext ==
    /\ scLast.fn = "none"
    /\ \E participant_scores \in Submissions, baseline_scores \in Submissions :
           CompareSubmissions(participant_scores, baseline_scores)

SpecCompare == Init /\ [][CompareNext]_vars

\* C26: more_creative is true exactly when both submissions carry valid = true
\* and the participant's divergence is strictly greater than the baseline's; it
\* is false when either is invalid or has no valid field; the deltas are
\* participant minus baseline.
C26_MoreCreative ==
    scLast.fn = "compare_submissions" =>
        LET p == scLast.participant
            b == scLast.baseline
        IN  /\ scLast.value.more_creative
                 <=> ( /\ p.has_valid /\ p.valid
                       /\ b.has_valid /\ b.valid
                       /\ p.divergence > b.divergence )
            /\ (~p.has_valid \/ ~b.has_valid \/ ~p.valid \/ ~b.valid)
                 => ~scLast.value.more_creative
            /\ scLast.value.relevance_delta = p.relevance - b.relevance
            /\ scLast.value.divergence_delta = p.divergence - b.divergence

\* two valid submissions of equal divergence: not more creative
C26_Witness ==
    /\ scLast.fn = "compare_submissions"
    /\ scLast.participant.has_valid /\ scLast.participant.valid
    /\ scLast.baseline.has_valid /\ scLast.baseline.valid
    /\ scLast.participant.divergence = 2
    /\ scLast.baseline.divergence = 2
    /\ ~scLast.value.more_creative

\* embedding vectors: the zero vector and vectors of length 5, so that every
\* norm is an integer and every cosine an exact fraction
Vectors == { <<5, 0>>, <<0, 5>>, <<3, 4>>, <<4, 3>>, <<0 - 5, 0>>, <<0, 0>> }

\* the clues of one submission
MaxClueVectors == 2

\* np.dot(a, b)
Dot(a, b) == a[1] * b[1] + a[2] * b[2]

\* np.linalg.norm(a)
Norm(a) == CHOOSE n \in 0..5 : n * n = Dot(a, a)

RECURSIVE Gcd(_, _)
Gcd(a, b) == IF b = 0 THEN a ELSE Gcd(b, a % b)

\* a fraction in lowest terms
FracReduce(f) ==
    LET g == Gcd(IF f.num < 0 THEN 0 - f.num ELSE f.num, f.den)
    IN  Pct(f.num \div g, f.den \div g)

\* sums and means of exact fractions
FracAdd(a, b) == FracReduce(Pct(a.num * b.den + b.num * a.den, a.den * b.den))

RECURSIVE FracSum(_)
FracSum(list) ==
    IF list = <<>> THEN Pct(0, 1) ELSE FracAdd(Head(list), FracSum(Tail(list)))

\* np.mean(list), list not empty
FracMean(list) ==
    LET total == FracSum(list) IN FracReduce(Pct(total.num, total.den * Len(list)))

\* cosine_similarity(a, b)
Cosine_similarity(a, b) ==
    IF Norm(a) = 0 \/ Norm(b) = 0 THEN Pct(0, 1)
    ELSE Pct(Dot(a, b), Norm(a) * Norm(b))

\* RELEVANCE_THRESHOLD = 0.15
RELEVANCE_THRESHOLD == Pct(15, 100)

\* the pairs i < j of calculate_spread_clues_only, in the order of its loops
PairsFrom(n) ==
    LET all == { <<i, j>> \in (1..n) \X (1..n) : i < j }
        RECURSIVE Listed(_)
        Listed(S) == IF S = {} THEN <<>>
                     ELSE LET p == CHOOSE x \in S :
                                     \A y \in S : x[1] < y[1] \/ (x[1] = y[1] /\ x[2] <= y[2])
                          IN  <<p>> \o Listed(S \ {p})
    IN  Listed(all)

\* calculate_spread_clues_only(clue_embeddings)
Calculate_spread_clues_only(clue_embeddings) ==
    IF Len(clue_embeddings) < 2 THEN Pct(0, 1)
    ELSE LET pairs == PairsFrom(Len(clue_embeddings))
             distances == [p \in 1..Len(pairs) |->
                             LET sim == Cosine_similarity(clue_embeddings[pairs[p][1]],
                                                          clue_embeddings[pairs[p][2]])
                             IN  Pct(sim.den - sim.num, sim.den)]
             mean == FracMean(distances)
         IN  Pct(mean.num * 100, mean.den)

\* Variant of ClueRelevance that takes the mean of the two similarities
ClueRelevance_Mean(clue, anchor_embedding, target_embedding) ==
    FracMean(<<Cosine_similarity(clue, anchor_embedding),
               Cosine_similarity(clue, target_embedding)>>)

\* min(sim_a, sim_t) of one clue
ClueRelevance(clue, anchor_embedding, target_embedding) ==
    PctMin(Cosine_similarity(clue, anchor_embedding),
           Cosine_similarity(clue, target_embedding))

\* score_union(clue_embeddings, anchor_embedding, target_embedding)
Score_union(clue_embeddings, anchor_embedding, target_embedding) ==
    IF clue_embeddings = <<>>
    THEN [relevance |-> Pct(0, 1), relevance_individual |-> <<>>, spread |-> Pct(0, 1),
          divergence |-> Pct(0, 1), valid |-> FALSE]
    ELSE LET relevance_scores ==
                 [i \in 1..Len(clue_embeddings) |->
                     ClueRelevance(clue_embeddings[i], anchor_embedding, target_embedding)]
             overall_relevance == FracMean(relevance_scores)
             overall_spread == Calculate_spread_clues_only(clue_embeddings)
         IN  [relevance |-> overall_relevance,
              relevance_individual |-> relevance_scores,
              spread |-> overall_spread,
              divergence |-> overall_spread,
              valid |-> ~PctLess(overall_relevance, RELEVANCE_THRESHOLD)]

ScoreUnion(clue_embeddings, anchor_embedding, target_embedding) ==
    /\ scLast' = [fn |-> "score_union", clues |-> clue_embeddings,
                  anchor |-> anchor_embedding, target |-> target_embedding,
                  value |-> Score_union(clue_embeddings, anchor_embedding,
                                        target_embedding)]
    /\ UNCHANGED <<now, ecVars, nfVars, preVars, subLast, lexUnion, ctxLast,
                   vpPool, vpLoad, vpLast, stats, stLast, lockVars>>

\* one call, on any input
UnionScoreNext ==
    /\ scLast.fn = "none"
    /\ \E clue_embeddings \in SeqsUpTo(Vectors, MaxClueVectors),
          anchor_embedding \in Vectors, target_embedding \in Vectors :
           ScoreUnion(clue_embeddings, anchor_embedding, target_embedding)

SpecUnionScore == Init /\ [][UnionScoreNext]_vars

\* C27: every per-word relevance of score_union is the lower of the word's
\* similarities to the anchor and to the target, the overall relevance is their
\* mean, valid holds exactly when the overall relevance is at least 0.15, and an
\* empty submission has relevance 0, spread 0 and valid false.
C27_DualAnchorRelevance ==
    scLast.fn = "score_union" =>
        LET value == scLast.value
            n     == Len(scLast.clues)
            sim_a(i) == Cosine_similarity(scLast.clues[i], scLast.anchor)
            sim_t(i) == Cosine_similarity(scLast.clues[i], scLast.target)
        IN  /\ Len(value.relevance_individual) = n
            /\ \A i \in 1..n :
                  /\ ~PctLess(sim_a(i), value.relevance_individual[i])
                  /\ ~PctLess(sim_t(i), value.relevance_individual[i])
                  /\ \/ PctEq(value.relevance_individual[i], sim_a(i))
                     \/ PctEq(value.relevance_individual[i], sim_t(i))
            /\ n > 0 => PctEq(value.relevance, FracMean(value.relevance_individual))
            /\ value.valid <=> value.relevance.num * 100 >= 15 * value.relevance.den
            /\ n = 0 => /\ PctEq(value.relevance, Pct(0, 1))
                        /\ PctEq(value.spread, Pct(0, 1))
                        /\ ~value.valid

\* a clue equal to the anchor and orthogonal to the target: relevance 0, the
\* lower similarity, and the submission is not valid
C27_Witness ==
    /\ scLast.fn = "score_union"
    /\ scLast.clues = << <<5, 0>> >>
    /\ scLast.anchor = <<5, 0>>
    /\ scLast.target = <<0, 5>>
    /\ PctEq(scLast.value.relevance, Pct(0, 1))
    /\ ~scLast.value.valid

\* _is_morphological_variant(word1, word2), called on its own
IsMorphologicalVariant(word1, word2) ==
    /\ scLast' = [fn |-> "is_morphological_variant", word1 |-> word1, word2 |-> word2,
                  value |-> Is_morphological_variant(word1, word2)]
    /\ UNCHANGED <<now, ecVars, nfVars, preVars, subLast, lexUnion, ctxLast,
                   vpPool, vpLoad, vpLast, stats, stLast, lockVars>>

\* one call, on any pair of words
VariantNext ==
    /\ scLast.fn = "none"
    /\ \E word1 \in VariantWords, word2 \in VariantWords :
           IsMorphologicalVariant(word1, word2)

SpecVariant == Init /\ [][VariantNext]_vars

\* C28: the detector answers true for mystery/mysteries, mystery/mysteriously
\* and certainty/uncertainty, and false for mystery/assurance.
C28_VariantExamples ==
    scLast.fn = "is_morphological_variant" =>
        /\ (scLast.word1 = W_mystery /\ scLast.word2 = W_mysteries) => scLast.value
        /\ (scLast.word1 = W_mystery /\ scLast.word2 = W_mysteriously) => scLast.value
        /\ (scLast.word1 = W_certainty /\ scLast.word2 = W_uncertainty) => scLast.value
        /\ (scLast.word1 = W_mystery /\ scLast.word2 = W_assurance) => ~scLast.value

(***************************************************************************)
(* find_lexical_union: the selection                                       *)
(***************************************************************************)

\* the largest num_concepts, the longest candidate list and the highest score
MaxSelect == 2
MaxCandidates == 3
MaxCombined == 2

SelectWords == { W_cats, W_catalyst, W_catalysts, W_happy }

SelectNext ==
    \/ \E num_concepts \in 0..MaxSelect : FindLexicalUnionCall(W_cat, W_run, num_concepts)
    \/ \E c \in SeqsUpTo(SelectWords, MaxCandidates) : FindLexicalUnionCandidates(c)
    \/ \E scores \in [1..Len(lexUnion.candidates) -> 0..MaxCombined] :
           FindLexicalUnionReturn(scores)
    \/ FindLexicalUnionRaises

SpecSelect == Init /\ [][SelectNext]_vars

\* candidate p comes before candidate q in descending score order
RanksBefore(p, q) ==
    \/ lexUnion.scores[p] > lexUnion.scores[q]
    \/ (lexUnion.scores[p] = lexUnion.scores[q] /\ p < q)

\* the word of candidate p is a variant of the anchor, of the target or of a
\* returned word other than itself
IsExcludedVariant(p) ==
    \/ Is_morphological_variant(lexUnion.candidates[p], lexUnion.anchor)
    \/ Is_morphological_variant(lexUnion.candidates[p], lexUnion.target)
    \/ \E i \in 1..Len(lexUnion.picked) :
          /\ lexUnion.picked[i] # p
          /\ Is_morphological_variant(lexUnion.candidates[p],
                                      lexUnion.candidates[lexUnion.picked[i]])

\* C29: the result of find_lexical_union has at most count words, in descending
\* score order, none a variant of the anchor, the target or another returned
\* word, and a candidate is left out only if it is such a variant or count
\* words were chosen before it, for every count >= 0.
C29_GreedySelection ==
    (lexUnion.pc = "done" /\ lexUnion.candidates # <<>>) =>
        LET picked == lexUnion.picked
            count  == lexUnion.num_concepts
        IN  /\ Len(picked) <= count
            /\ \A i, j \in 1..Len(picked) :
                  i < j => lexUnion.scores[picked[i]] >= lexUnion.scores[picked[j]]
            /\ \A i \in 1..Len(picked) : ~IsExcludedVariant(picked[i])
            /\ \A p \in 1..Len(lexUnion.candidates) :
                  (\A i \in 1..Len(picked) : picked[i] # p) =>
                      \/ IsExcludedVariant(p)
                      \/ Cardinality({ i \in 1..Len(picked) :
                                         RanksBefore(picked[i], p) }) >= count

(***************************************************************************)
(* The relevance of one null draw                                          *)
(***************************************************************************)

\* the embeddings of vocabulary words: none is the zero vector
VocabularyVectors == Vectors \ { <<0, 0>> }

\* StatsCache._cosine_similarity_batch(embeddings, reference)
Cosine_similarity_batch(embeddings, reference) ==
    [i \in 1..Len(embeddings) |->
        Pct(Dot(embeddings[i], reference), Norm(embeddings[i]) * Norm(reference))]

\* the relevance StatsCache._compute_null_distribution gives one draw
Stats_null_relevance(clue_embs, anchor_emb, target_emb) ==
    LET avg_anchor_sim == FracMean(Cosine_similarity_batch(clue_embs, anchor_emb))
        avg_target_sim == FracMean(Cosine_similarity_batch(clue_embs, target_emb))
    IN  FracMean(<<avg_anchor_sim, avg_target_sim>>)

\* the relevance compute_null_samples of the precompute gives one draw
Precompute_null_relevance(sample_embs, anchor_emb, target_emb) ==
    LET anchor_sims == [i \in 1..Len(sample_embs) |->
                           Pct(Dot(sample_embs[i], anchor_emb),
                               Norm(sample_embs[i]) * Norm(anchor_emb))]
        target_sims == [i \in 1..Len(sample_embs) |->
                           Pct(Dot(sample_embs[i], target_emb),
                               Norm(sample_embs[i]) * Norm(target_emb))]
    IN  FracMean(<<FracMean(anchor_sims), FracMean(target_sims)>>)

\* one draw of _compute_null_distribution: anchor, target and clues are
\* vocabulary vectors
StatsNullDraw(clue_embs, anchor_emb, target_emb) ==
    /\ scLast' = [fn |-> "stats_null_draw", clues |-> clue_embs, anchor |-> anchor_emb,
                  target |-> target_emb,
                  value |-> Stats_null_relevance(clue_embs, anchor_emb, target_emb)]
    /\ UNCHANGED <<now, ecVars, nfVars, preVars, subLast, lexUnion, ctxLast,
                   vpPool, vpLoad, vpLast, stats, stLast, lockVars>>

\* one draw of compute_null_samples: the clues are vocabulary vectors, anchor
\* and target the game's
PrecomputeNullDraw(sample_embs, anchor_emb, target_emb) ==
    /\ scLast' = [fn |-> "precompute_null_draw", clues |-> sample_embs,
                  anchor |-> anchor_emb, target |-> target_emb,
                  value |-> Precompute_null_relevance(sample_embs, anchor_emb, target_emb)]
    /\ UNCHANGED <<now, ecVars, nfVars, preVars, subLast, lexUnion, ctxLast,
                   vpPool, vpLoad, vpLast, stats, stLast, lockVars>>

\* one draw, of any vectors
NullDrawNext ==
    /\ scLast.fn = "none"
    /\ \E clue_embs \in SeqsUpTo(VocabularyVectors, MaxClueVectors) \ { <<>> },
          anchor_emb \in VocabularyVectors, target_emb \in VocabularyVectors :
           \/ StatsNullDraw(clue_embs, anchor_emb, target_emb)
           \/ PrecomputeNullDraw(clue_embs, anchor_emb, target_emb)

SpecNullDraw == Init /\ [][NullDrawNext]_vars

\* C30: the relevance a null distribution stores for a draw, in the StatsCache
\* and in the precompute, equals the relevance score_union returns for the same
\* vectors.
C30_NullRelevanceIsScoreUnion ==
    scLast.fn \in {"stats_null_draw", "precompute_null_draw"} =>
        PctEq(scLast.value,
              Score_union(scLast.clues, scLast.anchor, scLast.target).relevance)

(***************************************************************************)
(* Part G.  Lock discipline.  Each operation is the sequence of its lock   *)
(* acquisitions, lock releases and awaits, in program order; a `with lock` *)
(* block is an acquire and a release.                                      *)
(***************************************************************************)

Acquire(lock) == [do |-> "acquire", arg |-> lock]

Release(lock) == [do |-> "release", arg |-> lock]

Await(what) == [do |-> "await", arg |-> what]

\* with lock: a block that neither awaits nor takes another lock
With(lock) == <<Acquire(lock), Release(lock)>>

\* get_instance of any of the singletons, when _instance is None: with cls._lock
Steps_get_instance(cls) == With(cls \o "._lock")

\* reset_instance of any of the singletons: with cls._lock (EagerPrecompute
\* cancels its tasks inside the block, which takes no lock)
Steps_reset_instance(cls) == With(cls \o "._lock")

\* EmbeddingCache._get_from_cache / _put_in_cache / get_stats / clear
Steps_get_from_cache == With("EmbeddingCache._cache_lock")

Steps_put_in_cache == With("EmbeddingCache._cache_lock")

\* Variant of get_embedding that keeps the cache lock from the lookup to the store
Steps_get_embedding_Locked ==
    <<Acquire("EmbeddingCache._cache_lock"), Await("provider"),
      Release("EmbeddingCache._cache_lock")>>

\* EmbeddingCache.get_embedding on a miss: lookup, provider call, store
Steps_get_embedding ==
    Steps_get_from_cache \o <<Await("provider")>> \o Steps_put_in_cache

\* EmbeddingCache.get_embedding on a hit
Steps_get_embedding_hit == Steps_get_from_cache

\* EmbeddingCache.get_embeddings_batch of two texts, both missing: two lookups,
\* one provider call, two stores
Steps_get_embeddings_batch ==
    Steps_get_from_cache \o Steps_get_from_cache \o <<Await("provider")>>
        \o Steps_put_in_cache \o Steps_put_in_cache

\* NoiseFloorCache.get / put / get_stats / clear
Steps_nf_call == With("NoiseFloorCache._cache_lock")

\* VocabularyPool.initialize: the pages are fetched, then the lists are swapped
\* under the pool lock
Steps_vp_initialize == <<Await("store")>> \o With("VocabularyPool._pool_lock")

\* VocabularyPool.get_random / get_random_batch / get_random_with_embeddings /
\* contains / get_stats
Steps_vp_call == With("VocabularyPool._pool_lock")

\* StatsCache.initialize: pool.get_random_with_embeddings, then one store per
\* clue count
Steps_stats_initialize ==
    Steps_vp_call \o With("StatsCache._cache_lock") \o With("StatsCache._cache_lock")

\* StatsCache.get_relevance_percentile / get_stats / clear
Steps_stats_call == With("StatsCache._cache_lock")

\* EagerPrecompute.start_bridging_precompute: the record is stored and old
\* results cleaned up under the results lock; the task is created after it
Steps_start_bridging_precompute == With("EagerPrecompute._results_lock")

\* EagerPrecompute.get_precomputed_results: the lookup under the results lock,
\* then the wait for the task
Steps_get_precomputed_results ==
    With("EagerPrecompute._results_lock") \o <<Await("task")>>

\* EagerPrecompute.get_status / get_stats
Steps_pre_call == With("EagerPrecompute._results_lock")

\* compute_null_samples: pool.get_random_with_embeddings, then the sleep loop
Steps_compute_null_samples == Steps_vp_call \o <<Await("sleep")>>

Singletons ==
    { "EmbeddingCache", "NoiseFloorCache", "VocabularyPool", "StatsCache",
      "EagerPrecompute" }

\* the operations a thread can run
LockPrograms ==
    { [op |-> c \o ".get_instance", steps |-> Steps_get_instance(c)] : c \in Singletons }
    \cup { [op |-> c \o ".reset_instance", steps |-> Steps_reset_instance(c)] :
             c \in Singletons }
    \cup { [op |-> "EmbeddingCache.get_embedding", steps |-> Steps_get_embedding],
           [op |-> "EmbeddingCache.get_embedding (hit)", steps |-> Steps_get_embedding_hit],
           [op |-> "EmbeddingCache.get_embeddings_batch", steps |-> Steps_get_embeddings_batch],
           [op |-> "NoiseFloorCache.get", steps |-> Steps_nf_call],
           [op |-> "VocabularyPool.initialize", steps |-> Steps_vp_initialize],
           [op |-> "VocabularyPool.get_random_batch", steps |-> Steps_vp_call],
           [op |-> "StatsCache.initialize", steps |-> Steps_stats_initialize],
           [op |-> "StatsCache.get_relevance_percentile", steps |-> Steps_stats_call],
           [op |-> "EagerPrecompute.start_bridging_precompute",
            steps |-> Steps_start_bridging_precompute],
           [op |-> "EagerPrecompute.get_precomputed_results",
            steps |-> Steps_get_precomputed_results],
           [op |-> "EagerPrecompute.get_status", steps |-> Steps_pre_call],
           [op |-> "compute_null_samples", steps |-> Steps_compute_null_samples] }

LockFrame ==
    UNCHANGED <<now, ecVars, nfVars, preVars, subLast, lexUnion, ctxLast,
                vpPool, vpLoad, vpLast, stats, stLast, scLast>>

\* the step a thread is at
StepOf(th) == th.steps[th.pc]

AtStep(th, do) == th.op # "idle" /\ th.pc <= Len(th.steps) /\ StepOf(th).do = do

\* a thread enters an operation
ThreadCall(t, program) ==
    /\ threads[t].op = "idle"
    /\ threads' = [threads EXCEPT ![t] =
                       [op |-> program.op, steps |-> program.steps, pc |-> 1]]
    /\ UNCHANGED locks
    /\ LockFrame

\* Lock.acquire(): the thread blocks until the lock is free (a threading.Lock is
\* not reentrant)
ThreadAcquire(t) ==
    /\ AtStep(threads[t], "acquire")
    /\ locks[StepOf(threads[t]).arg] = 0
    /\ locks' = [locks EXCEPT ![StepOf(threads[t]).arg] = t]
    /\ threads' = [threads EXCEPT ![t].pc = @ + 1]
    /\ LockFrame

\* Lock.release() at the end of the with block
ThreadRelease(t) ==
    /\ AtStep(threads[t], "release")
    /\ locks' = [locks EXCEPT ![StepOf(threads[t]).arg] = 0]
    /\ threads' = [threads EXCEPT ![t].pc = @ + 1]
    /\ LockFrame

\* the awaited provider, store, task or sleep returns
ThreadAwaitReturns(t) ==
    /\ AtStep(threads[t], "await")
    /\ threads' = [threads EXCEPT ![t].pc = @ + 1]
    /\ UNCHANGED locks
    /\ LockFrame

\* the awaited call raises: the operation is left at once, by the exception
\* (get_embedding, get_embeddings_batch) or through an except branch that takes
\* no lock (VocabularyPool.initialize, get_precomputed_results); a with block
\* around the await would release its lock on the way out
ThreadAwaitRaises(t) ==
    /\ AtStep(threads[t], "await")
    /\ threads' = [threads EXCEPT ![t] = IdleThread]
    /\ locks' = [l \in LockNames |-> IF locks[l] = t THEN 0 ELSE locks[l]]
    /\ LockFrame

\* the operation returns
ThreadReturn(t) ==
    /\ threads[t].op # "idle"
    /\ threads[t].pc > Len(threads[t].steps)
    /\ threads' = [threads EXCEPT ![t] = IdleThread]
    /\ UNCHANGED locks
    /\ LockFrame

LockNext ==
    \/ \E t \in Threads, program \in LockPrograms : ThreadCall(t, program)
    \/ \E t \in Threads : ThreadAcquire(t)
    \/ \E t \in Threads : ThreadRelease(t)
    \/ \E t \in Threads : ThreadAwaitReturns(t)
    \/ \E t \in Threads : ThreadAwaitRaises(t)
    \/ \E t \in Threads : ThreadReturn(t)

SpecLocks == Init /\ [][LockNext]_vars

\* the locks a thread holds
Held(t) == { l \in LockNames : locks[l] = t }

\* the thread is at an acquire of a lock that is taken
Blocked(t) ==
    /\ AtStep(threads[t], "acquire")
    /\ locks[StepOf(threads[t]).arg] # 0

\* C32: no thread awaits a provider, store or task while it holds a lock, no
\* thread holds two locks or asks for one while it holds another, and a thread
\* that waits for a lock waits for a thread that can go on to release it.
C32_LockDiscipline ==
    \A t \in Threads :
        /\ AtStep(threads[t], "await") => Held(t) = {}
        /\ AtStep(threads[t], "acquire") => Held(t) = {}
        /\ Cardinality(Held(t)) <= 1
        /\ Blocked(t)
               => /\ locks[StepOf(threads[t]).arg] # t
                  /\ ENABLED ThreadRelease(locks[StepOf(threads[t]).arg])

\* one thread waits for the cache lock that the other holds, while no provider
\* call is in flight under it
C32_Witness ==
    /\ Blocked(1)
    /\ StepOf(threads[1]).arg = "EmbeddingCache._cache_lock"
    /\ threads[1].op = "EmbeddingCache.get_embedding"
    /\ threads[1].pc > 2
    /\ locks["EmbeddingCache._cache_lock"] = 2
    /\ threads[2].op = "EmbeddingCache.get_embeddings_batch"
=============================================================================
